---- MODULE Spec2Model ----
(***************************************************************************)
(* Template initialization wizard (scripts/template-init.mjs) and          *)
(* template verification script (scripts/template-check.mjs).              *)
(*                                                                         *)
(* Strings are sequences of one-character strings, so that the regular     *)
(* expressions of the two scripts (word boundaries, lookahead, greedy      *)
(* classes), String.prototype.replace / startsWith / lastIndexOf are       *)
(* modelled character by character.                                        *)
(***************************************************************************)
EXTENDS Integers, Sequences, FiniteSets, TLC

(***************************************************************************)
(* Characters                                                              *)
(***************************************************************************)
UpperChars ==
  {"A","B","C","D","E","F","G","H","I","J","K","L","M",
   "N","O","P","Q","R","S","T","U","V","W","X","Y","Z"}

LowerChars ==
  {"a","b","c","d","e","f","g","h","i","j","k","l","m",
   "n","o","p","q","r","s","t","u","v","w","x","y","z"}

DigitChars == {"0","1","2","3","4","5","6","7","8","9"}

\* \w of a JavaScript regular expression (no /u, no /i): [A-Za-z0-9_]
WordChars == UpperChars \cup LowerChars \cup DigitChars \cup {"_"}

\* [A-Z_] of the scanner's generic pattern
UpperOrUnderscore == UpperChars \cup {"_"}

\* the character of s at position i (1-based); "" outside the string
At(s, i) == IF i >= 1 /\ i <= Len(s) THEN s[i] ELSE ""

IsWord(ch) == ch \in WordChars

\* \b at the position between s[i-1] and s[i]
Boundary(s, i) == IsWord(At(s, i - 1)) # IsWord(At(s, i))

\* the literal lit occurs in s at position i
HasAt(s, i, lit) ==
  /\ i >= 1
  /\ i + Len(lit) - 1 <= Len(s)
  /\ \A k \in 1..Len(lit) : s[i + k - 1] = lit[k]

\* String.prototype.includes
Includes(s, lit) == \E i \in 1..(Len(s) + 1) : HasAt(s, i, lit)

\* String.prototype.startsWith
StartsWith(s, lit) == HasAt(s, 1, lit)

(***************************************************************************)
(* Texts: placeholder names, paths (relative to ROOT_DIR, separated by     *)
(* "/"), names, extensions, file contents and values                       *)
(***************************************************************************)
US == <<"_","_">>
\* the placeholder names and the other texts the patterns are made of
Token ==
  [
    PROJECT_NAME |-> <<"P","R","O","J","E","C","T","_","N","A","M","E">>,
    DESCRIPTION |-> <<"D","E","S","C","R","I","P","T","I","O","N">>,
    AUTHOR |-> <<"A","U","T","H","O","R">>,
    AUTHOR_EMAIL |-> <<"A","U","T","H","O","R","_","E","M","A","I","L">>,
    REPO_OWNER |-> <<"R","E","P","O","_","O","W","N","E","R">>,
    REPO_NAME |-> <<"R","E","P","O","_","N","A","M","E">>,
    REPO_URL |-> <<"R","E","P","O","_","U","R","L">>,
    COMPANY_DOMAIN |-> <<"C","O","M","P","A","N","Y","_","D","O","M","A","I","N">>,
    SUPPORT_EMAIL |-> <<"S","U","P","P","O","R","T","_","E","M","A","I","L">>,
    SECURITY_EMAIL |-> <<"S","E","C","U","R","I","T","Y","_","E","M","A","I","L">>,
    USERNAME |-> <<"U","S","E","R","N","A","M","E">>,
    YOUR_ |-> <<"Y","O","U","R","_">>,
    YOUR_DOMAIN |-> <<"Y","O","U","R","_","D","O","M","A","I","N">>,
    AtExampleCom |-> <<"@","e","x","a","m","p","l","e",".","c","o","m">>,
    IZED |-> <<"I","Z","E","D">>,
    Slash |-> <<"/">>,
    USERNAME_REPO_NAME |-> <<"U","S","E","R","N","A","M","E","/","R","E","P","O","_","N","A",
      "M","E">>,
    YOUR_USERNAME_REPO_NAME |-> <<"Y","O","U","R","_","U","S","E","R","N","A","M","E","/","R",
      "E","P","O","_","N","A","M","E">>,
    YOUR_USERNAME |-> <<"Y","O","U","R","_","U","S","E","R","N","A","M","E">>,
    PROJECT_DISPLAY_NAME |-> <<"P","R","O","J","E","C","T","_","D","I","S","P","L","A","Y","_",
      "N","A","M","E">>,
    PRODUCTION_URL |-> <<"P","R","O","D","U","C","T","I","O","N","_","U","R","L">>,
    TEAM_HANDLE |-> <<"T","E","A","M","_","H","A","N","D","L","E">>,
    UN |-> <<"U","N">>,
    Space |-> <<" ">>,
    US_PROJECT |-> <<"_","_","P","R","O","J","E","C","T">>,
    NAME_US |-> <<"N","A","M","E","_","_">> ]

\* the paths of the files of the working tree, relative to its root
Path ==
  [
    TemplateDir |-> <<".","t","e","m","p","l","a","t","e">>,
    UNINITIALIZED |-> <<".","t","e","m","p","l","a","t","e","/","U","N","I","N","I","T","I","A",
      "L","I","Z","E","D">>,
    PLACEHOLDERS_md |-> <<".","t","e","m","p","l","a","t","e","/","P","L","A","C","E","H","O",
      "L","D","E","R","S",".","m","d">>,
    EnvExample |-> <<".","e","n","v",".","e","x","a","m","p","l","e">>,
    EnvLocal |-> <<".","e","n","v",".","l","o","c","a","l">>,
    SECURITY_md |-> <<".","g","i","t","h","u","b","/","S","E","C","U","R","I","T","Y",".","m",
      "d">>,
    BugReport_yml |-> <<".","g","i","t","h","u","b","/","I","S","S","U","E","_","T","E","M","P",
      "L","A","T","E","/","b","u","g","_","r","e","p","o","r","t",".","y","m","l">>,
    README_md |-> <<"R","E","A","D","M","E",".","m","d">>,
    Docs_md |-> <<"d","o","c","s",".","m","d">>,
    DocsApi_md |-> <<"d","o","c","s","/","a","p","i",".","m","d">>,
    DocsBuildGuide_md |->
      <<"d","o","c","s","/","b","u","i","l","d","/","g","u","i","d","e",".","m","d">>,
    PackageJson |-> <<"p","a","c","k","a","g","e",".","j","s","o","n">>,
    PackageLock |-> <<"p","a","c","k","a","g","e","-","l","o","c","k",".","j","s","o","n">>,
    PnpmLock |-> <<"p","n","p","m","-","l","o","c","k",".","y","a","m","l">>,
    Gitignore |-> <<".","g","i","t","i","g","n","o","r","e">>,
    Tsconfig |-> <<"t","s","c","o","n","f","i","g",".","j","s","o","n">>,
    Logo_png |-> <<"p","u","b","l","i","c","/","l","o","g","o",".","p","n","g">>,
    TemplateInit |-> <<"s","c","r","i","p","t","s","/","t","e","m","p","l","a","t","e","-","i",
      "n","i","t",".","m","j","s">>,
    TemplateCheck |-> <<"s","c","r","i","p","t","s","/","t","e","m","p","l","a","t","e","-","c",
      "h","e","c","k",".","m","j","s">>,
    NodeModulesReadme |-> <<"n","o","d","e","_","m","o","d","u","l","e","s","/","p","k","g","/",
      "R","E","A","D","M","E",".","m","d">>,
    GitConfig |-> <<".","g","i","t","/","c","o","n","f","i","g">> ]

\* the names of the excluded directories and files
Name ==
  [
    TemplateInit |-> <<"t","e","m","p","l","a","t","e","-","i","n","i","t",".","m","j","s">>,
    TemplateCheck |-> <<"t","e","m","p","l","a","t","e","-","c","h","e","c","k",".","m","j","s"
      >>,
    PLACEHOLDERS_md |-> <<"P","L","A","C","E","H","O","L","D","E","R","S",".","m","d">>,
    NodeModules |-> <<"n","o","d","e","_","m","o","d","u","l","e","s">>,
    Git |-> <<".","g","i","t">>,
    Next |-> <<".","n","e","x","t">>,
    Dist |-> <<"d","i","s","t">>,
    Build |-> <<"b","u","i","l","d">>,
    Out |-> <<"o","u","t">>,
    Coverage |-> <<"c","o","v","e","r","a","g","e">> ]

\* the extensions of text files
Ext ==
  [
    Md |-> <<".","m","d">>,
    Txt |-> <<".","t","x","t">>,
    Json |-> <<".","j","s","o","n">>,
    Yml |-> <<".","y","m","l">>,
    Yaml |-> <<".","y","a","m","l">>,
    Ts |-> <<".","t","s">>,
    Tsx |-> <<".","t","s","x">>,
    Js |-> <<".","j","s">>,
    Mjs |-> <<".","m","j","s">>,
    Css |-> <<".","c","s","s">> ]

\* the contents of the files of the working tree
FileText ==
  [
    Readme |-> <<"#"," ","P","R","O","J","E","C","T","_","N","A","M","E"," ","U","S","E","R",
      "N","A","M","E","/","R","E","P","O","_","N","A","M","E">>,
    PackagePlaceholder |-> <<"{","\"","n","a","m","e","\"",":","\"","P","R","O","J","E","C","T",
      "_","N","A","M","E","\"",",","\"","a","u","t","h","o","r","\"",":","\"","A","U","T","H",
      "O","R","\"","}">>,
    PackageReal |-> <<"{","\"","n","a","m","e","\"",":","\"","a","c","m","e","-","a","p","p",
      "\"",",","\"","a","u","t","h","o","r","\"",":","\"","J","a","n","e"," ","D","o","e","\"",
      "}">>,
    Security |-> <<"M","a","i","l"," ","_","_","S","E","C","U","R","I","T","Y","_","E","M","A",
      "I","L","_","_">>,
    BugReport |-> <<"u","r","l",":"," ","_","_","R","E","P","O","_","U","R","L","_","_">>,
    TemplateInit |-> <<"{"," ","p","a","t","t","e","r","n",":"," ","/","_","_","P","R","O","J",
      "E","C","T","_","N","A","M","E","_","_","/","g"," ","}">>,
    TemplateCheck |-> <<"/","\\","b","A","U","T","H","O","R","\\","b","/","g">>,
    PlaceholdersDoc |-> <<"|"," ","_","_","A","U","T","H","O","R","_","_"," ","|"," ","A","U",
      "T","H","O","R"," ","|">>,
    PackageLock |-> <<"\"","n","a","m","e","\"",":"," ","\"","P","R","O","J","E","C","T","_",
      "N","A","M","E","\"">>,
    PnpmLock |-> <<"n","a","m","e",":"," ","_","_","P","R","O","J","E","C","T","_","N","A","M",
      "E","_","_">>,
    NodeModulesReadme |-> <<"A","U","T","H","O","R">>,
    Logo |-> <<"P","N","G">>,
    EnvExample |-> <<"A","P","P","_","N","A","M","E","=","P","R","O","J","E","C","T","_","N",
      "A","M","E">>,
    EnvLocal |-> <<"A","P","P","_","N","A","M","E","=","m","i","n","e">>,
    Gitignore |-> <<"n","o","d","e","_","m","o","d","u","l","e","s">>,
    Tsconfig |-> <<"{","}">>,
    GitConfig |-> <<"[","c","o","r","e","]">>,
    EndToEnd |-> <<"_","_","P","R","O","J","E","C","T","_","N","A","M","E","_","_"," ","b","y",
      " ","_","_","A","U","T","H","O","R","_","_",","," ","s","e","e"," ","U","S","E","R","N",
      "A","M","E","/","R","E","P","O","_","N","A","M","E">>,
    EndToEndResult |-> <<"a","c","m","e","-","a","p","p"," ","b","y"," ","J","a","n","e"," ",
      "D","o","e",","," ","s","e","e"," ","j","a","n","e","d","o","e","/","a","c","m","e","-",
      "a","p","p">>,
    Unauthorized |-> <<"T","h","e"," ","u","s","e","r"," ","w","a","s"," ","U","N","A","U","T",
      "H","O","R","I","Z","E","D"," ","t","o"," ","v","i","e","w"," ","r","e","c","o","r","d",
      "s">>,
    \* four lines: a title, an indented line of 89 characters that starts with
    \* AUTHOR, a line with UNAUTHORIZED, and an empty last line
    Notes |-> <<"#"," ","N","o","t","e","s","\n"," "," ","A","U","T","H","O","R"," ">>
                \o [k \in 1..80 |-> "x"]
                \o <<"\n","U","N","A","U","T","H","O","R","I","Z","E","D"," ","u","s","e",
                     "\n">> ]

\* default values, and the values a user may give
Value ==
  [
    DescriptionDefault |-> <<"A"," ","m","o","d","e","r","n"," ","N","e","x","t",".","j","s",
      " ","+"," ","T","y","p","e","S","c","r","i","p","t"," ","a","p","p","l","i","c","a","t",
      "i","o","n">>,
    ExampleCom |-> <<"e","x","a","m","p","l","e",".","c","o","m">>,
    AuthorAtExampleCom |-> <<"a","u","t","h","o","r","@","e","x","a","m","p","l","e",".","c",
      "o","m">>,
    SupportAtExampleCom |-> <<"s","u","p","p","o","r","t","@","e","x","a","m","p","l","e",".",
      "c","o","m">>,
    SecurityAtExampleCom |-> <<"s","e","c","u","r","i","t","y","@","e","x","a","m","p","l","e",
      ".","c","o","m">>,
    TemplateDirName |-> <<"n","e","x","t","j","s","-","t","s","-","t","e","m","p","l","a","t",
      "e">>,
    GithubCom |-> <<"g","i","t","h","u","b",".","c","o","m">>,
    HttpsGithubCom |-> <<"h","t","t","p","s",":","/","/","g","i","t","h","u","b",".","c","o",
      "m","/">>,
    AcmeApp |-> <<"a","c","m","e","-","a","p","p">>,
    JaneDoe |-> <<"J","a","n","e"," ","D","o","e">>,
    Janedoe |-> <<"j","a","n","e","d","o","e">>,
    JaneMail |-> <<"j","a","n","e","@","a","c","m","e",".","d","e","v">>,
    AcmeDev |-> <<"a","c","m","e",".","d","e","v">>,
    MyApp |-> <<"m","y","-","a","p","p">>,
    RemoteSsh |-> <<"g","i","t","@","g","i","t","h","u","b",".","c","o","m",":","j","a","n","e",
      "d","o","e","/","a","c","m","e","-","a","p","p",".","g","i","t">>,
    RemotePlaceholder |-> <<"h","t","t","p","s",":","/","/","g","i","t","h","u","b",".","c","o",
      "m","/","U","S","E","R","N","A","M","E","/","R","E","P","O","_","N","A","M","E",".","g",
      "i","t">>,
    RemoteYourPlaceholder |-> <<"h","t","t","p","s",":","/","/","g","i","t","h","u","b",".",
      "c","o","m","/","Y","O","U","R","_","U","S","E","R","N","A","M","E","/","R","E","P","O",
      "_","N","A","M","E",".","g","i","t">>,
    GitUser |-> <<"G","i","t"," ","U","s","e","r">>,
    GitMail |-> <<"g","i","t","@","u","s","e","r","s",".","d","e","v">> ]

\* what a user may type at the confirmation prompt
Answer ==
  [
    Yes |-> <<"y","e","s">>,
    Y |-> <<"y">>,
    YesPadded |-> <<" ","Y","e","s"," ">>,
    No |-> <<"n","o">>,
    N |-> <<"n">> ]

\* __NAME__
Bracketed(name) == US \o name \o US

(***************************************************************************)
(* Regular expressions.  A pattern is a record:                            *)
(*   kind "lit"     : \b? literal \b? (?!notAhead)?                        *)
(*   kind "generic" : __[A-Z_]+__                                          *)
(***************************************************************************)
Lit(text) == [kind |-> "lit", lit |-> text, wbStart |-> FALSE, wbEnd |-> FALSE, notAhead |-> <<>>]
Word(text) == [kind |-> "lit", lit |-> text, wbStart |-> TRUE, wbEnd |-> TRUE, notAhead |-> <<>>]
WordNotAhead(text, ahead) == [kind |-> "lit", lit |-> text, wbStart |-> TRUE, wbEnd |-> TRUE, notAhead |-> ahead]
Generic == [kind |-> "generic", lit |-> <<>>, wbStart |-> FALSE, wbEnd |-> FALSE, notAhead |-> <<>>]

\* the length of the run of [A-Z_] characters of s that starts at i
ClassRun(s, i) ==
  LET stops == {j \in i..(Len(s) + 1) : At(s, j) \notin UpperOrUnderscore}
  IN (CHOOSE j \in stops : \A k \in stops : j <= k) - i

\* __[A-Z_]+__ at i: greedy, backtracking to the last "__" of the run
GenericMatchLen(s, i) ==
  IF ~HasAt(s, i, US) THEN 0
  ELSE LET run == ClassRun(s, i)
           ends == {n \in 5..run : s[i + n - 2] = "_" /\ s[i + n - 1] = "_"}
       IN IF ends = {} THEN 0 ELSE CHOOSE n \in ends : \A m \in ends : m <= n

\* the length of the match of pattern p in s that starts at i; 0 if none
MatchLen(s, i, p) ==
  IF p.kind = "generic" THEN GenericMatchLen(s, i)
  ELSE IF /\ HasAt(s, i, p.lit)
          /\ (p.wbStart => Boundary(s, i))
          /\ (p.wbEnd => Boundary(s, i + Len(p.lit)))
          /\ (p.notAhead # <<>> => ~HasAt(s, i + Len(p.lit), p.notAhead))
       THEN Len(p.lit)
       ELSE 0

\* the grave accent character (U+0060), which a TLA+ string cannot hold
chGrave == "GRAVE"

\* GetSubstitution of String.prototype.replace for a pattern without capture
\* groups: $$ is "$", $& the match, $ and a grave accent the text before it,
\* $ and an apostrophe the text after it; any other character, a "$" before
\* anything else included, is literal.  k is the position in value to go on
\* from; the text up to the next "$" is copied in one step.
RECURSIVE GetSubstitution(_, _, _, _, _)
GetSubstitution(value, k, s, i, n) ==
  LET dollars == {d \in k..Len(value) : value[d] = "$"}
  IN IF dollars = {} THEN SubSeq(value, k, Len(value))
     ELSE LET d == CHOOSE e \in dollars : \A f \in dollars : e <= f
              ch == At(value, d + 1)
              expanded ==
                CASE ch = "$" -> <<"$">>
                  [] ch = "&" -> SubSeq(s, i, i + n - 1)
                  [] ch = chGrave -> SubSeq(s, 1, i - 1)
                  [] ch = "'" -> SubSeq(s, i + n, Len(s))
                  [] OTHER -> <<"$">>
              next == IF ch \in {"$", "&", chGrave, "'"} THEN d + 2 ELSE d + 1
          IN SubSeq(value, k, d - 1) \o expanded \o GetSubstitution(value, next, s, i, n)

\* the first character of every match of p
FirstChar(p) == IF p.kind = "generic" THEN "_" ELSE p.lit[1]

\* the position of the leftmost match of p in s at or after i; 0 if none
NextMatch(s, i, p) ==
  LET at == {j \in i..Len(s) : s[j] = FirstChar(p) /\ MatchLen(s, j, p) > 0}
  IN IF at = {} THEN 0 ELSE CHOOSE j \in at : \A k \in at : j <= k

\* s.replace(/p/g, value), scanning s from position i
RECURSIVE ReplaceFrom(_, _, _, _)
ReplaceFrom(s, i, p, value) ==
  LET j == NextMatch(s, i, p)
  IN IF j = 0 THEN SubSeq(s, i, Len(s))
     ELSE LET n == MatchLen(s, j, p)
          IN SubSeq(s, i, j - 1) \o GetSubstitution(value, 1, s, j, n)
               \o ReplaceFrom(s, j + n, p, value)

ReplaceAll(s, p, value) == ReplaceFrom(s, 1, p, value)

\* the set of the texts s.matchAll(/p/g) yields, scanning s from position i
RECURSIVE MatchesFrom(_, _, _)
MatchesFrom(s, i, p) ==
  LET j == NextMatch(s, i, p)
  IN IF j = 0 THEN {}
     ELSE LET n == MatchLen(s, j, p)
          IN {SubSeq(s, j, j + n - 1)} \cup MatchesFrom(s, j + n, p)

MatchAll(s, p) == MatchesFrom(s, 1, p)

(***************************************************************************)
(* Substitution Engine: replacePlaceholders of template-init.mjs           *)
(***************************************************************************)
Keys ==
  {"projectName", "description", "author", "authorEmail", "repoOwner",
   "repoName", "repoUrl", "companyDomain", "supportEmail", "securityEmail"}

\* the rule for the bare AUTHOR, with its boundaries dropped
AuthorRuleNoBoundary == Lit(Token.AUTHOR)

\* /\bAUTHOR\b(?!IZED)/g
AuthorRule == WordNotAhead(Token.AUTHOR, Token.IZED)

\* a rule for the slash pair that asks for word boundaries around it
RepoPairRuleWholeWord == Word(Token.USERNAME_REPO_NAME)

\* /USERNAME\/REPO_NAME/g
RepoPairRule == Lit(Token.USERNAME_REPO_NAME)

Rule(p, value) == [pattern |-> p, value |-> value]

\* the ordered rule list of replacePlaceholders
Replacements(values) ==
  << Rule(Lit(Bracketed(Token.PROJECT_NAME)), values.projectName),
     Rule(Lit(Bracketed(Token.DESCRIPTION)), values.description),
     Rule(Lit(Bracketed(Token.AUTHOR)), values.author),
     Rule(Lit(Bracketed(Token.AUTHOR_EMAIL)), values.authorEmail),
     Rule(Lit(Bracketed(Token.REPO_OWNER)), values.repoOwner),
     Rule(Lit(Bracketed(Token.REPO_NAME)), values.repoName),
     Rule(Lit(Bracketed(Token.REPO_URL)), values.repoUrl),
     Rule(Lit(Bracketed(Token.COMPANY_DOMAIN)), values.companyDomain),
     Rule(Lit(Bracketed(Token.SUPPORT_EMAIL)), values.supportEmail),
     Rule(Lit(Bracketed(Token.SECURITY_EMAIL)), values.securityEmail),
     Rule(Word(Token.PROJECT_NAME), values.projectName),
     Rule(Word(Token.DESCRIPTION), values.description),
     Rule(AuthorRule, values.author),
     Rule(RepoPairRule, values.repoOwner \o Token.Slash \o values.repoName),
     Rule(Lit(Token.YOUR_USERNAME_REPO_NAME), values.repoOwner \o Token.Slash \o values.repoName),
     Rule(Word(Token.YOUR_DOMAIN), values.companyDomain),
     Rule(Word(Token.SUPPORT_EMAIL \o Token.AtExampleCom), values.supportEmail),
     Rule(Word(Token.SECURITY_EMAIL \o Token.AtExampleCom), values.securityEmail) >>

\* for (const { pattern, value } of replacements) result = result.replace(...)
RECURSIVE ApplyRules(_, _, _)
ApplyRules(result, rules, k) ==
  IF k > Len(rules) THEN result
  ELSE LET replaced == ReplaceAll(result, rules[k].pattern, rules[k].value)
       IN \* the test has TLC compute this rule's result before the next rule
          IF Len(replaced) >= 0 THEN ApplyRules(replaced, rules, k + 1) ELSE result

replacePlaceholders(content, values) == ApplyRules(content, Replacements(values), 1)

(***************************************************************************)
(* Verification Scanner: findPlaceholders of template-check.mjs            *)
(***************************************************************************)
PLACEHOLDER_PATTERNS ==
  << Generic,
     Word(Token.PROJECT_NAME),
     Word(Token.DESCRIPTION),
     Word(Token.AUTHOR),
     Word(Token.USERNAME_REPO_NAME),
     Word(Token.YOUR_DOMAIN),
     Word(Token.SUPPORT_EMAIL \o Token.AtExampleCom),
     Word(Token.SECURITY_EMAIL \o Token.AtExampleCom) >>

\* the set of the distinct matched texts
findPlaceholders(content) ==
  UNION {MatchAll(content, PLACEHOLDER_PATTERNS[k]) : k \in 1..Len(PLACEHOLDER_PATTERNS)}

(***************************************************************************)
(* Strings: trim, toLowerCase, lastIndexOf, substring                      *)
(***************************************************************************)
WhiteSpace == {" ", "\t", "\n", "\r"}

RECURSIVE TrimStart(_)
TrimStart(s) ==
  IF s # <<>> /\ Head(s) \in WhiteSpace THEN TrimStart(Tail(s)) ELSE s

RECURSIVE TrimEnd(_)
TrimEnd(s) ==
  IF s # <<>> /\ s[Len(s)] \in WhiteSpace THEN TrimEnd(SubSeq(s, 1, Len(s) - 1)) ELSE s

\* String.prototype.trim
Trim(s) == TrimEnd(TrimStart(s))

UpperSeq ==
  <<"A","B","C","D","E","F","G","H","I","J","K","L","M",
    "N","O","P","Q","R","S","T","U","V","W","X","Y","Z">>

LowerSeq ==
  <<"a","b","c","d","e","f","g","h","i","j","k","l","m",
    "n","o","p","q","r","s","t","u","v","w","x","y","z">>

LowerChar(ch) ==
  IF ch \in UpperChars THEN LowerSeq[CHOOSE k \in 1..Len(UpperSeq) : UpperSeq[k] = ch] ELSE ch

\* String.prototype.toLowerCase
ToLowerCase(s) == [k \in 1..Len(s) |-> LowerChar(s[k])]

\* String.prototype.lastIndexOf, 1-based; 0 when ch does not occur (-1 in JS)
LastIndexOf(s, ch) ==
  LET at == {i \in 1..Len(s) : s[i] = ch}
  IN IF at = {} THEN 0 ELSE CHOOSE i \in at : \A j \in at : j <= i

\* String.prototype.indexOf, 1-based; 0 when ch does not occur
IndexOf(s, ch) ==
  LET at == {i \in 1..Len(s) : s[i] = ch}
  IN IF at = {} THEN 0 ELSE CHOOSE i \in at : \A j \in at : i <= j

\* filePath.substring(filePath.lastIndexOf('.')): substring(-1) is the whole string
ExtensionOf(filePath) ==
  LET dot == LastIndexOf(filePath, ".")
  IN IF dot = 0 THEN filePath ELSE SubSeq(filePath, dot, Len(filePath))

\* filePath.split(sep).pop()
FileNameOf(filePath) == SubSeq(filePath, LastIndexOf(filePath, "/") + 1, Len(filePath))

(***************************************************************************)
(* The tree.  paths is the set of the regular files; the directories are   *)
(* the proper prefixes of the paths.                                       *)
(***************************************************************************)
\* path.join(dir, item), relative to ROOT_DIR (<<>> is ROOT_DIR itself)
join(dir, item) == IF dir = <<>> THEN item ELSE dir \o Token.Slash \o item

isFile(path, paths) == path \in paths

isDirectory(path, paths) == \E p \in paths : StartsWith(p, path \o Token.Slash)

\* the name of the entry of dir that path p lies in or is; <<>> if p is not under dir
EntryOf(dir, p) ==
  LET prefix == IF dir = <<>> THEN <<>> ELSE dir \o Token.Slash
  IN IF ~StartsWith(p, prefix) \/ Len(p) = Len(prefix) THEN <<>>
     ELSE LET rest == SubSeq(p, Len(prefix) + 1, Len(p))
              cut == IndexOf(rest, "/")
          IN IF cut = 0 THEN rest ELSE SubSeq(rest, 1, cut - 1)

\* the order in which the filesystem of the working tree lists the entries
\* of a directory: the order of their first appearance in this list
ListingOrder ==
  << Path.EnvExample, Path.EnvLocal, Path.GitConfig, Path.BugReport_yml, Path.SECURITY_md, Path.Gitignore,
     Path.PLACEHOLDERS_md, Path.UNINITIALIZED, Path.README_md, Path.NodeModulesReadme,
     Path.PackageLock, Path.PackageJson, Path.PnpmLock, Path.Logo_png, Path.TemplateCheck,
     Path.TemplateInit, Path.Tsconfig >>

RECURSIVE ListFrom(_, _, _, _, _)
ListFrom(dir, paths, order, k, seen) ==
  IF k > Len(order) THEN <<>>
  ELSE LET e == IF order[k] \in paths THEN EntryOf(dir, order[k]) ELSE <<>>
       IN IF e = <<>> \/ e \in seen
          THEN ListFrom(dir, paths, order, k + 1, seen)
          ELSE <<e>> \o ListFrom(dir, paths, order, k + 1, seen \cup {e})

\* fs.readdirSync(dir): the names of the entries of dir, in the order in
\* which the filesystem lists them (order: the paths, in that order)
readdirSync(dir, paths, order) == ListFrom(dir, paths, order, 1, {})

(***************************************************************************)
(* File Discovery of template-init.mjs                                     *)
(***************************************************************************)
TEXT_EXTENSIONS == {Ext.Md, Ext.Txt, Ext.Json, Ext.Yml, Ext.Yaml, Ext.Ts, Ext.Tsx, Ext.Js, Ext.Mjs, Ext.Css}

EXCLUDE_DIRS == {Name.NodeModules, Name.Git, Name.Next, Name.Dist, Name.Build, Name.Out, Name.Coverage}

shouldProcessFile(filePath) == ExtensionOf(filePath) \in TEXT_EXTENSIONS

\* the files pushed by the loop of findTextFiles(dir) from its k-th item on
RECURSIVE findTextFilesLoop(_, _, _, _, _)
findTextFilesLoop(dir, items, k, paths, order) ==
  IF k > Len(items) THEN <<>>
  ELSE LET relativePath == join(dir, items[k])
           rest == findTextFilesLoop(dir, items, k + 1, paths, order)
       IN IF \E excluded \in EXCLUDE_DIRS : StartsWith(relativePath, excluded)
          THEN rest
          ELSE IF isDirectory(relativePath, paths)
          THEN findTextFilesLoop(relativePath, readdirSync(relativePath, paths, order), 1,
                                 paths, order) \o rest
          ELSE IF isFile(relativePath, paths) /\ shouldProcessFile(relativePath)
          THEN <<relativePath>> \o rest
          ELSE rest

findTextFiles(dir, paths, order) ==
  findTextFilesLoop(dir, readdirSync(dir, paths, order), 1, paths, order)

(***************************************************************************)
(* Default Value Resolver: getDefaults of template-init.mjs                *)
(***************************************************************************)
\* the length of the run of characters of s outside stop that starts at i
RECURSIVE RunLen(_, _, _)
RunLen(s, i, stop) ==
  IF i <= Len(s) /\ s[i] \notin stop THEN 1 + RunLen(s, i + 1, stop) ELSE 0

\* /github\.com[:/]([^/]+)\/([^/.]+)/ at position i: <<owner, repo>>, or <<>>
GithubMatchAt(url, i) ==
  IF ~(HasAt(url, i, Value.GithubCom) /\ At(url, i + Len(Value.GithubCom)) \in {":", "/"})
  THEN <<>>
  ELSE LET ownerStart == i + Len(Value.GithubCom) + 1
           ownerLen == RunLen(url, ownerStart, {"/"})
           repoStart == ownerStart + ownerLen + 1
           repoLen == RunLen(url, repoStart, {"/", "."})
       IN IF ownerLen >= 1 /\ At(url, ownerStart + ownerLen) = "/" /\ repoLen >= 1
          THEN << SubSeq(url, ownerStart, ownerStart + ownerLen - 1),
                  SubSeq(url, repoStart, repoStart + repoLen - 1) >>
          ELSE <<>>

\* remoteUrl.match(...): the leftmost match, <<>> for null
GithubMatch(url) ==
  LET at == {i \in 1..Len(url) : GithubMatchAt(url, i) # <<>>}
  IN IF at = {} THEN <<>>
     ELSE GithubMatchAt(url, CHOOSE i \in at : \A j \in at : i <= j)

InitialDefaults ==
  [projectName |-> <<>>,
   description |-> Value.DescriptionDefault,
   author |-> <<>>,
   repoUrl |-> <<>>,
   repoOwner |-> <<>>,
   repoName |-> <<>>,
   companyDomain |-> Value.ExampleCom,
   authorEmail |-> Value.AuthorAtExampleCom,
   supportEmail |-> Value.SupportAtExampleCom,
   securityEmail |-> Value.SecurityAtExampleCom]

\* the repo name from the directory name
DefaultsFromDir(d, dir) ==
  IF dir # <<>> /\ dir # Value.TemplateDirName
  THEN [d EXCEPT !.projectName = dir, !.repoName = dir]
  ELSE d

\* the git remote URL; remoteUrl is <<>> when the command fails or prints nothing
DefaultsFromRemote(d, remoteUrl) ==
  IF remoteUrl = <<>> THEN d
  ELSE LET githubMatch == GithubMatch(remoteUrl)
           d1 == [d EXCEPT !.repoUrl = remoteUrl]
       IN IF githubMatch = <<>> THEN d1
          ELSE [d1 EXCEPT !.repoOwner = githubMatch[1],
                          !.repoName = githubMatch[2],
                          !.projectName = IF d.projectName = <<>> THEN githubMatch[2] ELSE @]

\* package.json; pkg.ok is FALSE when reading or parsing it throws
DefaultsFromPackage(d, pkg) ==
  IF ~pkg.ok THEN d
  ELSE [d EXCEPT !.projectName = IF pkg.name # <<>> /\ pkg.name # Token.PROJECT_NAME THEN pkg.name ELSE @,
                 !.author = IF pkg.author # <<>> /\ pkg.author # Token.AUTHOR THEN pkg.author ELSE @]

\* git config user.name / user.email; id.ok is FALSE when one of the commands fails
DefaultsFromIdentity(d, id) ==
  IF ~id.ok THEN d
  ELSE LET d1 == [d EXCEPT !.author = IF id.user # <<>> /\ d.author = <<>> THEN id.user ELSE @]
       IN IF id.email # <<>>
          THEN [d1 EXCEPT !.authorEmail = id.email, !.supportEmail = id.email, !.securityEmail = id.email]
          ELSE d1

getDefaults(dir, remoteUrl, pkg, id) ==
  DefaultsFromIdentity(
    DefaultsFromPackage(
      DefaultsFromRemote(
        DefaultsFromDir(InitialDefaults, dir), remoteUrl), pkg), id)

(***************************************************************************)
(* Prompt Collector: prompt and gatherInput of template-init.mjs           *)
(***************************************************************************)
\* resolve(answer.trim() || defaultValue)
prompt(answer, defaultValue) ==
  IF Trim(answer) # <<>> THEN Trim(answer) ELSE defaultValue

\* The default of the sixth prompt is "defaults.repoName || answers.projectName",
\* evaluated inside the initializer of "const answers": when defaults.repoName
\* is empty, answers is read in its temporal dead zone and a ReferenceError is
\* thrown, after five prompts.  typed is the text typed at each prompt.
gatherInput(defaults, typed) ==
  IF defaults.repoName = <<>>
  THEN [threw |-> TRUE, prompts |-> 5, values |-> defaults]
  ELSE LET repoOwner == prompt(typed[5], defaults.repoOwner)
           repoName == prompt(typed[6], defaults.repoName)
       IN [threw |-> FALSE,
           prompts |-> 9,
           values |->
             [projectName |-> prompt(typed[1], defaults.projectName),
              description |-> prompt(typed[2], defaults.description),
              author |-> prompt(typed[3], defaults.author),
              authorEmail |-> prompt(typed[4], defaults.authorEmail),
              repoOwner |-> repoOwner,
              repoName |-> repoName,
              companyDomain |-> prompt(typed[7], defaults.companyDomain),
              supportEmail |-> prompt(typed[8], defaults.supportEmail),
              securityEmail |-> prompt(typed[9], defaults.securityEmail),
              repoUrl |-> IF repoOwner # <<>> /\ repoName # <<>>
                          THEN Value.HttpsGithubCom \o repoOwner \o Token.Slash \o repoName
                          ELSE defaults.repoUrl]]

\* a gate that only an explicit "no" closes
AffirmativeUnlessNo(confirm) == ToLowerCase(confirm) # Answer.No

\* !(confirm.toLowerCase() !== 'yes' && confirm.toLowerCase() !== 'y')
Affirmative(confirm) == ToLowerCase(confirm) = Answer.Yes \/ ToLowerCase(confirm) = Answer.Y

(***************************************************************************)
(* State                                                                   *)
(***************************************************************************)
VARIABLES
  pc,           \* template-init.mjs: the position of main
  files,        \* the tree under ROOT_DIR: path |-> content of each regular file
  gitState,     \* "nogit": no git binary; "norepo": not a repository; "repo"
  gitRemote,    \* the URL of the remote origin; <<>> when there is none
  gitIdentity,  \* [user, email] of git config; <<>> when unset
  dirName,      \* the last component of ROOT_DIR
  values,       \* the values gatherInput returned
  confirm,      \* the text typed at the confirmation prompt
  todo,         \* processFiles: the discovered files not yet processed
  stateRecord,  \* .template/state.json: <<>>, or <<the record written>>
  exitCode,     \* <<the exit status>>; <<>> while the script runs
  log,          \* the messages printed, in order
  prompts,      \* the number of prompts shown
  faults,       \* the number of I/O operations that failed so far
  before,       \* the tree, remote and state record when the run started,
                \* and in earlier: <<>>, or <<the run that ended before it>>
  cpc,          \* template-check.mjs: the position of main
  checks,       \* template-check.mjs: the results of the checks made so far
  tpc,          \* the transform under test: its position
  tContent,     \* the transform under test: the content
  tValues,      \* the transform under test: the values
  tOnce,        \* replacePlaceholders(tContent, tValues)
  tTwice,       \* replacePlaceholders(tOnce, tValues)
  tFound,       \* findPlaceholders(tOnce)
  dpc,          \* the discoveries under test: their position
  dTree,        \* the discoveries under test: [paths, order] of a tree
  dFound,       \* what findTextFiles returned: [init, scan, again]
  rpc,          \* the resolver under test: its position
  rSources,     \* the resolver under test: [dir, remote, pkg, id, typed]
  rResult       \* [defaults |-> getDefaults(..), got |-> gatherInput(..)]

initVars ==
  << pc, gitState, gitRemote, gitIdentity, dirName, values, confirm, todo,
     stateRecord, log, prompts, faults, before >>

checkVars == << cpc, checks >>

transformVars == << tpc, tContent, tValues, tOnce, tTwice, tFound >>

discoveryVars == << dpc, dTree, dFound >>

resolverVars == << rpc, rSources, rResult >>

vars == << initVars, files, exitCode, checkVars, transformVars, discoveryVars, resolverVars >>

(***************************************************************************)
(* Bounds and inputs                                                       *)
(***************************************************************************)
\* the number of I/O operations that may fail
MaxFaults == 1

Running == <<>>
Exited(status) == <<status>>

\* package.json as found in the tree: absent or unparsable, the template's
\* own (placeholders), or an edited one
PackageOf(fs) ==
  IF Path.PackageJson \notin DOMAIN fs THEN [ok |-> FALSE, name |-> <<>>, author |-> <<>>]
  ELSE IF fs[Path.PackageJson] = FileText.PackagePlaceholder
  THEN [ok |-> TRUE, name |-> Token.PROJECT_NAME, author |-> Token.AUTHOR]
  ELSE IF fs[Path.PackageJson] = FileText.PackageReal
  THEN [ok |-> TRUE, name |-> Value.AcmeApp, author |-> Value.JaneDoe]
  ELSE [ok |-> FALSE, name |-> <<>>, author |-> <<>>]

\* the files of a fresh clone of the template that are always there
BaseTree ==
  [p \in { Path.UNINITIALIZED, Path.PLACEHOLDERS_md, Path.SECURITY_md, Path.BugReport_yml,
           Path.README_md, Path.PackageLock, Path.PnpmLock, Path.Gitignore, Path.Logo_png,
           Path.TemplateInit, Path.TemplateCheck, Path.NodeModulesReadme } |->
     CASE p = Path.UNINITIALIZED -> <<>>
       [] p = Path.PLACEHOLDERS_md -> FileText.PlaceholdersDoc
       [] p = Path.SECURITY_md -> FileText.Security
       [] p = Path.BugReport_yml -> FileText.BugReport
       [] p = Path.README_md -> FileText.Readme
       [] p = Path.PackageLock -> FileText.PackageLock
       [] p = Path.PnpmLock -> FileText.PnpmLock
       [] p = Path.Gitignore -> FileText.Gitignore
       [] p = Path.Logo_png -> FileText.Logo
       [] p = Path.TemplateInit -> FileText.TemplateInit
       [] p = Path.TemplateCheck -> FileText.TemplateCheck
       [] p = Path.NodeModulesReadme -> FileText.NodeModulesReadme]

\* f extended or overwritten at path p
WriteFile(f, p, content) ==
  [q \in DOMAIN f \cup {p} |-> IF q = p THEN content ELSE f[q]]

\* f without path p
Unlink(f, p) == [q \in DOMAIN f \ {p} |-> f[q]]

\* f with the optional files named in opt (path |-> content) added
WithFiles(f, opt) ==
  [q \in DOMAIN f \cup DOMAIN opt |-> IF q \in DOMAIN opt THEN opt[q] ELSE f[q]]

NoFiles == [q \in {} |-> <<>>]

OptionalFile(present, p, content) == IF present THEN [q \in {p} |-> content] ELSE NoFiles

PackageContents == {<<>>, FileText.PackagePlaceholder, FileText.PackageReal}

GitSetups ==
  { [state |-> "nogit", remote |-> <<>>],
    [state |-> "norepo", remote |-> <<>>],
    [state |-> "repo", remote |-> <<>>],
    [state |-> "repo", remote |-> Value.RemotePlaceholder],
    [state |-> "repo", remote |-> Value.RemoteSsh] }

GitIdentities ==
  { [user |-> <<>>, email |-> <<>>],
    [user |-> Value.GitUser, email |-> <<>>],
    [user |-> Value.GitUser, email |-> Value.GitMail] }

DirNames == {Value.TemplateDirName, Value.MyApp}

\* what the user types at the nine prompts of gatherInput
TypedInputs ==
  LET TypedNothing == [k \in 1..9 |-> <<>>]
      TypedOwner == [TypedNothing EXCEPT ![5] = Value.Janedoe]
      TypedAll ==
        << Value.AcmeApp, <<"A","c","m","e">>, Value.JaneDoe, Value.JaneMail, Value.Janedoe,
           Value.AcmeApp, Value.AcmeDev, Value.JaneMail, Value.JaneMail >>
  IN {TypedNothing, TypedOwner, TypedAll}

\* what the user types at the confirmation prompt
ConfirmInputs == {<<>>, Answer.YesPadded, Answer.No, Answer.N, <<"o","k">>}

NoValues == [k \in Keys |-> <<>>]

Event(ev, path) == [ev |-> ev, path |-> path]

(***************************************************************************)
(* template-init.mjs: main                                                 *)
(***************************************************************************)
\* a test that takes the state record for the completion signal
RecordSaysInitialized == stateRecord # <<>>

\* isInitialized: !existsSync(UNINITIALIZED_MARKER)
isInitialized == Path.UNINITIALIZED \notin DOMAIN files

\* git remote get-url origin: <<>> when the command fails or prints nothing
RemoteQuery == IF gitState = "repo" THEN gitRemote ELSE <<>>

\* git config user.name, then git config user.email: either failing throws
IdentityQuery ==
  [ok |-> gitState # "nogit" /\ gitIdentity.user # <<>> /\ gitIdentity.email # <<>>,
   user |-> gitIdentity.user,
   email |-> gitIdentity.email]

Say(ev, path) == log' = Append(log, Event(ev, path))

Exit(status) == exitCode' = Exited(status) /\ pc' = "exit"

CanFail == faults < MaxFaults

Fail == faults' = faults + 1

\* a main that removes the marker before it saves the state
ThenMarkerFirst(step) ==
  CASE step = "process" -> "env"
    [] step = "env" -> "git"
    [] step = "git" -> "marker"
    [] step = "marker" -> "state"
    [] step = "state" -> "summary"

\* main, after the confirmation: processFiles, createEnvFile,
\* updateGitRemote, saveState, removeMarker, showNextSteps follow one another
Then(step) ==
  CASE step = "process" -> "env"
    [] step = "env" -> "git"
    [] step = "git" -> "state"
    [] step = "state" -> "marker"
    [] step = "marker" -> "summary"

\* main, up to gatherInput
Start ==
  /\ pc = "start"
  /\ IF isInitialized
     THEN Say("already initialized", <<>>) /\ Exit(0)
     ELSE pc' = "gather" /\ UNCHANGED << log, exitCode >>
  /\ UNCHANGED << files, gitState, gitRemote, gitIdentity, dirName, values, confirm,
                  todo, stateRecord, prompts, faults, before, checkVars, transformVars,
                  discoveryVars, resolverVars >>

\* const values = await gatherInput(); a throw is caught by main: exit 1
GatherInput ==
  /\ pc = "gather"
  /\ \E typed \in TypedInputs :
       LET defaults == getDefaults(dirName, RemoteQuery, PackageOf(files), IdentityQuery)
           got == gatherInput(defaults, typed)
       IN /\ prompts' = got.prompts
          /\ IF got.threw
             THEN Say("Initialization failed", <<>>) /\ Exit(1) /\ UNCHANGED values
             ELSE values' = got.values /\ pc' = "confirm" /\ UNCHANGED << log, exitCode >>
  /\ UNCHANGED << files, gitState, gitRemote, gitIdentity, dirName, confirm, todo,
                  stateRecord, faults, before, checkVars, transformVars,
                  discoveryVars, resolverVars >>

\* the confirmation prompt; on yes, processFiles starts with its discovery
Confirm ==
  /\ pc = "confirm"
  /\ \E typed \in ConfirmInputs :
       /\ confirm' = typed
       /\ prompts' = prompts + 1
       /\ IF Affirmative(prompt(typed, Answer.Yes))
          THEN /\ todo' = findTextFiles(<<>>, DOMAIN files, ListingOrder)
               /\ pc' = IF todo' = <<>> THEN Then("process") ELSE "process"
               /\ UNCHANGED << log, exitCode >>
          ELSE Say("Initialization cancelled", <<>>) /\ Exit(0) /\ UNCHANGED todo
  /\ UNCHANGED << files, gitState, gitRemote, gitIdentity, dirName, values,
                  stateRecord, faults, before, checkVars, transformVars,
                  discoveryVars, resolverVars >>

\* the catch of processFiles ends the loop instead of one iteration
AfterFailureStops(remaining) == <<>>

\* processFiles: the try/catch lies inside the loop, so after a file that
\* failed the loop goes on with the files that remain
AfterFailure(remaining) == remaining

\* one iteration of the loop of processFiles
ProcessFile ==
  /\ pc = "process"
  /\ todo # <<>>
  /\ \E filePath \in {Head(todo)} :
     \E content \in {files[filePath]} :
     \E newContent \in {replacePlaceholders(content, values)} :
        \/ /\ files' = IF content # newContent THEN WriteFile(files, filePath, newContent) ELSE files
           /\ IF content # newContent THEN Say("Updated", filePath) ELSE UNCHANGED log
           /\ todo' = Tail(todo)
           /\ UNCHANGED faults
        \/ \* readFileSync throws
           /\ CanFail /\ Fail
           /\ Say("Skipped (error)", filePath)
           /\ todo' = AfterFailure(Tail(todo))
           /\ UNCHANGED files
        \/ \* writeFileSync throws
           /\ CanFail /\ Fail
           /\ content # newContent
           /\ Say("Skipped (error)", filePath)
           /\ todo' = AfterFailure(Tail(todo))
           /\ UNCHANGED files
  /\ pc' = IF todo' = <<>> THEN Then("process") ELSE "process"
  /\ UNCHANGED << gitState, gitRemote, gitIdentity, dirName, values, confirm,
                  stateRecord, exitCode, prompts, before, checkVars, transformVars,
                  discoveryVars, resolverVars >>

\* a creator that copies whenever the example exists
ShouldCreateEnvOverwrites(localExists, exampleExists) == exampleExists

\* createEnvFile: !existsSync(envLocal) && existsSync(envExample)
ShouldCreateEnv(localExists, exampleExists) == ~localExists /\ exampleExists

createEnvFile ==
  /\ pc = "env"
  /\ IF ShouldCreateEnv(Path.EnvLocal \in DOMAIN files, Path.EnvExample \in DOMAIN files)
     THEN \/ /\ files' = WriteFile(files, Path.EnvLocal, files[Path.EnvExample])
             /\ Say("Created .env.local from .env.example", <<>>)
             /\ UNCHANGED faults
          \/ /\ CanFail /\ Fail
             /\ Say("Could not create .env.local", <<>>)
             /\ UNCHANGED files
     ELSE UNCHANGED << files, log, faults >>
  /\ pc' = Then("env")
  /\ UNCHANGED << gitState, gitRemote, gitIdentity, dirName, values, confirm, todo,
                  stateRecord, exitCode, prompts, before, checkVars, transformVars,
                  discoveryVars, resolverVars >>

\* git remote set-url / add origin <newRemote> fails on its own when the URL
\* is missing or is split into several words by the shell
RemoteCommandFails(newRemote) ==
  newRemote = <<>> \/ \E k \in 1..Len(newRemote) : newRemote[k] \in WhiteSpace

updateGitRemote ==
  /\ pc = "git"
  /\ IF gitState = "nogit"
     THEN Say("Git not found, skipping remote update", <<>>) /\ UNCHANGED << gitRemote, faults >>
     ELSE IF gitState = "norepo"
     THEN Say("Not a git repository, skipping remote update", <<>>) /\ UNCHANGED << gitRemote, faults >>
     ELSE LET currentRemote == gitRemote
              newRemote == values.repoUrl
          IN IF \/ currentRemote = <<>>
                \/ Includes(currentRemote, Token.YOUR_USERNAME)
                \/ Includes(currentRemote, Token.USERNAME)
             THEN \/ /\ ~RemoteCommandFails(newRemote)
                     /\ gitRemote' = newRemote
                     /\ Say(IF currentRemote # <<>> THEN "Updated git remote" ELSE "Added git remote", newRemote)
                     /\ UNCHANGED faults
                  \/ /\ RemoteCommandFails(newRemote)
                     /\ Say("Could not update git remote", <<>>)
                     /\ UNCHANGED << gitRemote, faults >>
                  \/ /\ ~RemoteCommandFails(newRemote)
                     /\ CanFail /\ Fail
                     /\ Say("Could not update git remote", <<>>)
                     /\ UNCHANGED gitRemote
             ELSE Say("Git remote already configured", currentRemote) /\ UNCHANGED << gitRemote, faults >>
  /\ pc' = Then("git")
  /\ UNCHANGED << files, gitState, gitIdentity, dirName, values, confirm, todo,
                  stateRecord, exitCode, prompts, before, checkVars, transformVars,
                  discoveryVars, resolverVars >>

\* the record saveState serializes (its timestamp left out)
StateOf(v) == [initialized |-> TRUE, values |-> v]

\* a saveState whose failure reaches the catch of main
SaveOutcomeRethrows(writeFails) == IF writeFails THEN "threw" ELSE "saved"

\* what saveState does: "saved", or "warned" when the write throws, which
\* its own catch turns into a warning
SaveOutcome(writeFails) == IF writeFails THEN "warned" ELSE "saved"

saveState ==
  /\ pc = "state"
  /\ \E writeFails \in BOOLEAN :
       LET did == SaveOutcome(writeFails)
       IN /\ writeFails => CanFail
          /\ faults' = IF writeFails THEN faults + 1 ELSE faults
          /\ stateRecord' = IF did = "saved" THEN <<StateOf(values)>> ELSE stateRecord
          /\ IF did = "threw"
             THEN /\ log' = log \o << Event("Could not save state", <<>>),
                                      Event("Initialization failed", <<>>) >>
                  /\ Exit(1)
             ELSE /\ Say(IF did = "saved" THEN "Saved initialization state"
                         ELSE "Could not save state", <<>>)
                  /\ pc' = Then("state")
                  /\ UNCHANGED exitCode
  /\ UNCHANGED << files, gitState, gitRemote, gitIdentity, dirName, values, confirm,
                  todo, prompts, before, checkVars, transformVars,
                  discoveryVars, resolverVars >>

\* a removeMarker that warns instead of rethrowing
removeMarkerSwallows(exists, unlinkFails) ==
  IF ~exists THEN "absent" ELSE IF unlinkFails THEN "warned" ELSE "removed"

\* what removeMarker does: "removed", "absent" (nothing to do) or "threw"
removeMarker(exists, unlinkFails) ==
  IF ~exists THEN "absent" ELSE IF unlinkFails THEN "threw" ELSE "removed"

\* removeMarker(), and main's catch when it throws
RemoveMarker ==
  /\ pc = "marker"
  /\ \E unlinkFails \in BOOLEAN :
       LET did == removeMarker(Path.UNINITIALIZED \in DOMAIN files, unlinkFails)
       IN /\ unlinkFails => (CanFail /\ Path.UNINITIALIZED \in DOMAIN files)
          /\ faults' = IF unlinkFails THEN faults + 1 ELSE faults
          /\ files' = IF did = "removed" THEN Unlink(files, Path.UNINITIALIZED) ELSE files
          /\ IF did = "threw"
             THEN /\ log' = log \o << Event("Could not remove marker", <<>>),
                                      Event("Initialization failed", <<>>) >>
                  /\ Exit(1)
             ELSE /\ log' = IF did = "removed"
                            THEN Append(log, Event("Removed UNINITIALIZED marker", <<>>))
                            ELSE IF did = "warned"
                            THEN Append(log, Event("Could not remove marker", <<>>))
                            ELSE log
                  /\ pc' = Then("marker")
                  /\ UNCHANGED exitCode
  /\ UNCHANGED << gitState, gitRemote, gitIdentity, dirName, values, confirm, todo,
                  stateRecord, prompts, before, checkVars, transformVars,
                  discoveryVars, resolverVars >>

\* showNextSteps(), after which main returns and the process ends
showNextSteps ==
  /\ pc = "summary"
  /\ Say("Template Initialized Successfully!", <<>>)
  /\ Exit(0)
  /\ UNCHANGED << files, gitState, gitRemote, gitIdentity, dirName, values, confirm,
                  todo, stateRecord, prompts, faults, before, checkVars, transformVars,
                  discoveryVars, resolverVars >>

CheckIdle == cpc = "off" /\ checks = <<>>

DiscoveryIdle == dpc = "off" /\ dTree = <<>> /\ dFound = <<>>

ResolverIdle == rpc = "off" /\ rSources = <<>> /\ rResult = <<>>

TransformIdle ==
  /\ tpc = "off"
  /\ tContent = <<>>
  /\ tValues = NoValues
  /\ tOnce = <<>>
  /\ tTwice = <<>>
  /\ tFound = {}

\* a clone of the template, before template-init.mjs starts
Init ==
  /\ \E marker \in BOOLEAN, envLocal \in BOOLEAN, envExample \in BOOLEAN,
        pkg \in PackageContents, git \in GitSetups :
       /\ files =
            WithFiles(
              WithFiles(
                WithFiles(
                  WithFiles(IF marker THEN BaseTree ELSE Unlink(BaseTree, Path.UNINITIALIZED),
                            OptionalFile(envLocal, Path.EnvLocal, FileText.EnvLocal)),
                  OptionalFile(envExample, Path.EnvExample, FileText.EnvExample)),
                OptionalFile(pkg # <<>>, Path.PackageJson, pkg)),
              OptionalFile(git.state = "repo", Path.GitConfig, FileText.GitConfig))
       /\ gitState = git.state
       /\ gitRemote = git.remote
  /\ gitIdentity \in GitIdentities
  /\ dirName \in DirNames
  /\ before = [files |-> files, gitRemote |-> gitRemote, stateRecord |-> <<>>,
               earlier |-> <<>>]
  /\ pc = "start"
  /\ values = NoValues
  /\ confirm = <<>>
  /\ todo = <<>>
  /\ stateRecord = <<>>
  /\ exitCode = Running
  /\ log = <<>>
  /\ prompts = 0
  /\ faults = 0
  /\ CheckIdle
  /\ TransformIdle
  /\ DiscoveryIdle
  /\ ResolverIdle

Next ==
  \/ Start
  \/ GatherInput
  \/ Confirm
  \/ ProcessFile
  \/ createEnvFile
  \/ updateGitRemote
  \/ saveState
  \/ RemoveMarker
  \/ showNextSteps

Spec == Init /\ [][Next]_vars

(***************************************************************************)
(* Runs of template-init.mjs that follow one another (specification        *)
(* SpecRerun): the process may be killed during the mutation phase, and    *)
(* main may be started again on the tree the run before it left            *)
(***************************************************************************)
\* the exit status of a process ended by SIGINT
Killed == Exited(130)

MutationPhase == {"process", "env", "git", "state", "marker", "summary"}

\* the process is killed between two steps of the mutation phase: main
\* installs no signal handler, so nothing is undone and nothing is printed
Interrupt ==
  /\ pc \in MutationPhase
  /\ before.earlier = <<>>
  /\ exitCode' = Killed
  /\ pc' = "exit"
  /\ UNCHANGED << files, gitState, gitRemote, gitIdentity, dirName, values, confirm,
                  todo, stateRecord, log, prompts, faults, before, checkVars, transformVars,
                  discoveryVars, resolverVars >>

\* main is started once more; in between, the marker may have been put back
Rerun ==
  /\ pc = "exit"
  /\ before.earlier = <<>>
  /\ \E recreate \in BOOLEAN :
       /\ recreate => Path.UNINITIALIZED \notin DOMAIN files
       /\ files' = IF recreate THEN WriteFile(files, Path.UNINITIALIZED, <<>>) ELSE files
  /\ before' = [files |-> files', gitRemote |-> gitRemote, stateRecord |-> stateRecord,
                earlier |-> << [files |-> before.files, values |-> values,
                                exitCode |-> exitCode, tree |-> files] >>]
  /\ pc' = "start"
  /\ values' = NoValues
  /\ confirm' = <<>>
  /\ todo' = <<>>
  /\ exitCode' = Running
  /\ log' = <<>>
  /\ prompts' = 0
  /\ UNCHANGED << gitState, gitRemote, gitIdentity, dirName, stateRecord, faults,
                  checkVars, transformVars,
                  discoveryVars, resolverVars >>

\* a clone with the template's package.json and .env.example, in a
\* directory and with a git identity of the user's, and in a repository
\* whose remote is still a placeholder
RerunInit ==
  /\ \E marker \in BOOLEAN :
       files =
         WithFiles(
           WithFiles(
             WithFiles(IF marker THEN BaseTree ELSE Unlink(BaseTree, Path.UNINITIALIZED),
                       OptionalFile(TRUE, Path.EnvExample, FileText.EnvExample)),
             OptionalFile(TRUE, Path.PackageJson, FileText.PackagePlaceholder)),
           OptionalFile(TRUE, Path.GitConfig, FileText.GitConfig))
  /\ gitState = "repo"
  /\ gitRemote = Value.RemoteYourPlaceholder
  /\ gitIdentity = [user |-> Value.GitUser, email |-> Value.GitMail]
  /\ dirName = Value.MyApp
  /\ before = [files |-> files, gitRemote |-> gitRemote, stateRecord |-> <<>>,
               earlier |-> <<>>]
  /\ pc = "start"
  /\ values = NoValues
  /\ confirm = <<>>
  /\ todo = <<>>
  /\ stateRecord = <<>>
  /\ exitCode = Running
  /\ log = <<>>
  /\ prompts = 0
  /\ faults = 0
  /\ CheckIdle
  /\ TransformIdle
  /\ DiscoveryIdle
  /\ ResolverIdle

RerunNext == Next \/ Interrupt \/ Rerun

SpecRerun == RerunInit /\ [][RerunNext]_vars

(***************************************************************************)
(* Properties of the init wizard (specification Spec)                      *)
(***************************************************************************)
Range(seq) == {seq[k] : k \in 1..Len(seq)}

HasEvent(ev) == \E k \in 1..Len(log) : log[k].ev = ev

\* the tree, the marker and the local env file in it, the state record and
\* the remote are what they were when the run started
Untouched ==
  /\ files = before.files
  /\ stateRecord = before.stateRecord
  /\ gitRemote = before.gitRemote

\* the confirmation prompt is the tenth prompt of a run
ConfirmationRead == prompts = 10

\* the user typed an explicit no at the confirmation prompt
Declined == ConfirmationRead /\ confirm \in {Answer.No, Answer.N}

\* C1: no side effect occurs before confirmation: until the confirmation
\* answer is read (at the prompts, and in a run that ends before it) the
\* tree, marker, state record, local env file and remote are unchanged; a
\* run the user declines changes nothing either and exits with status 0.
C1_NoSideEffectBeforeConfirmation ==
  /\ pc \in {"start", "gather", "confirm"} => Untouched
  /\ (pc = "exit" /\ ~ConfirmationRead) => Untouched
  /\ Declined => (Untouched /\ pc = "exit" /\ exitCode = Exited(0))

C1_Witness == Declined /\ pc = "exit" /\ Path.UNINITIALIZED \in DOMAIN files

\* C2: when removing the marker fails after the files were substituted, the
\* run exits with a non-zero status, the marker is still present and the
\* success summary is not printed.
C2_MarkerFailureIsFatal ==
  HasEvent("Could not remove marker") =>
    /\ pc = "exit"
    /\ exitCode # Running /\ exitCode # Exited(0)
    /\ Path.UNINITIALIZED \in DOMAIN files
    /\ ~HasEvent("Template Initialized Successfully!")

C2_Witness ==
  /\ HasEvent("Could not remove marker")
  /\ HasEvent("Updated")
  /\ files # before.files

\* the fixed file exclusion list of the specification
ExcludedFromRewrite ==
  {Path.TemplateInit, Path.TemplateCheck, Path.PackageLock, Path.PnpmLock, Path.PLACEHOLDERS_md}

\* C5: the init run never rewrites the engine's own source, the lockfiles
\* and the placeholder reference document.
C5_ExcludedFilesKeepContent ==
  \A p \in ExcludedFromRewrite \cap DOMAIN before.files :
    p \in DOMAIN files /\ files[p] = before.files[p]

\* the names of the directories a path lies beneath
RECURSIVE DirsAbove(_)
DirsAbove(p) ==
  LET cut == IndexOf(p, "/")
  IN IF cut = 0 THEN {}
     ELSE {SubSeq(p, 1, cut - 1)} \cup DirsAbove(SubSeq(p, cut + 1, Len(p)))

\* a regular file with an allow-listed extension beneath no excluded directory
Eligible(p) ==
  /\ ExtensionOf(p) \in TEXT_EXTENSIONS
  /\ DirsAbove(p) \cap EXCLUDE_DIRS = {}

SubstitutionDone == pc \in {"env", "git", "state", "marker", "summary"}

\* C6: every eligible file is discovered and has its placeholders replaced
\* (in a pass in which no read or write failed), the .md and .yml files
\* under .github/ included.
C6_EveryEligibleFileIsProcessed ==
  (SubstitutionDone /\ faults = 0) =>
    \A p \in DOMAIN before.files :
      Eligible(p) => files[p] = replacePlaceholders(before.files[p], values)

\* no usable directory name, no remote, no readable package.json, no identity
AllSourcesAbsent ==
  /\ dirName = Value.TemplateDirName
  /\ RemoteQuery = <<>>
  /\ ~PackageOf(before.files).ok
  /\ ~IdentityQuery.ok

\* C10: with every optional default source absent the wizard proceeds
\* through all prompts to the confirmation step: no run ends before it.
C10_WizardReachesConfirmation ==
  (AllSourcesAbsent /\ Path.UNINITIALIZED \in DOMAIN before.files /\ pc = "exit")
    => ConfirmationRead

\* the files processFiles discovers in the tree the run started in
Discovered == Range(findTextFiles(<<>>, DOMAIN before.files, ListingOrder))

\* the files the substitution pass skipped with a warning
Skipped == {log[k].path : k \in {j \in 1..Len(log) : log[j].ev = "Skipped (error)"}}

\* C11: when reading or writing one file fails during the substitution pass
\* that file is skipped with a warning and left as it was, every other
\* discovered file is still processed (the tree when the pass ends), and the
\* run goes on to env-file creation, state recording and marker removal.
C11_FailedFileSkippedOthersProcessed ==
  /\ (pc = "env" /\ Skipped # {}) =>
        \A p \in Discovered :
          files[p] = IF p \in Skipped THEN before.files[p]
                     ELSE replacePlaceholders(before.files[p], values)
  /\ (pc = "exit" /\ Skipped # {}) =>
        /\ HasEvent("Saved initialization state") \/ HasEvent("Could not save state")
        /\ HasEvent("Removed UNINITIALIZED marker") \/ HasEvent("Could not remove marker")
        /\ (Path.EnvExample \in DOMAIN files) => (Path.EnvLocal \in DOMAIN files
                                                  \/ HasEvent("Could not create .env.local"))

\* a finished run that skipped one file and updated a file after it
C11_Witness ==
  /\ pc = "exit"
  /\ exitCode = Exited(0)
  /\ Skipped # {}
  /\ \E k \in 1..Len(log) : \E j \in 1..Len(log) :
       k < j /\ log[k].ev = "Skipped (error)" /\ log[j].ev = "Updated"

\* createEnvFile has returned
EnvCreatorRan ==
  \/ pc \in {"git", "state", "marker", "summary"}
  \/ pc = "exit" /\ (HasEvent("Saved initialization state") \/ HasEvent("Could not save state"))

\* an existing .env.local keeps its content, in every state of a run
EnvLocalKept ==
  Path.EnvLocal \in DOMAIN before.files =>
    (Path.EnvLocal \in DOMAIN files /\ files[Path.EnvLocal] = before.files[Path.EnvLocal])

\* .env.local was absent and .env.example exists
EnvLocalToCreate ==
  Path.EnvLocal \notin DOMAIN before.files /\ Path.EnvExample \in DOMAIN before.files

\* .env.local holds the bytes .env.example had when the run started
EnvLocalIsCopy ==
  Path.EnvLocal \in DOMAIN files /\ files[Path.EnvLocal] = before.files[Path.EnvExample]

\* C12 as stated: an existing .env.local is never changed; an absent one is
\* created with exactly the content of .env.example, unsubstituted, whenever
\* .env.example exists.
C12_EnvLocalAlwaysCreated ==
  /\ EnvLocalKept
  /\ (EnvCreatorRan /\ EnvLocalToCreate) => EnvLocalIsCopy

\* C12, amended: an existing .env.local is never changed; an absent one is
\* created with exactly the content of .env.example, unsubstituted, unless
\* the copy fails, which is warned about and leaves .env.local absent; with
\* no .env.example none is created.
C12_EnvLocalKeptOrCopiedVerbatim ==
  /\ EnvLocalKept
  /\ (EnvCreatorRan /\ EnvLocalToCreate) =>
       IF HasEvent("Could not create .env.local")
       THEN Path.EnvLocal \notin DOMAIN files
       ELSE EnvLocalIsCopy
  /\ (Path.EnvLocal \notin DOMAIN before.files /\ Path.EnvExample \notin DOMAIN before.files)
       => Path.EnvLocal \notin DOMAIN files

\* a run that substituted files and then created .env.local, which still
\* holds the placeholder text of .env.example
C12_Witness ==
  /\ pc = "exit"
  /\ EnvLocalToCreate
  /\ HasEvent("Updated")
  /\ EnvLocalIsCopy
  /\ files[Path.EnvLocal] # replacePlaceholders(files[Path.EnvLocal], values)

\* C14: a failure to write the state record is not fatal.  A run that
\* warned "Could not save state" goes on to the marker removal: when it has
\* ended, the removal was attempted; and when the removal succeeded, the
\* marker is absent, and the run ends with the success summary and status 0.
\* The state record is the one the run found.
C14_StateWriteFailureNotFatal ==
  HasEvent("Could not save state") =>
    /\ pc \in {"marker", "summary", "exit"}
    /\ stateRecord = before.stateRecord
    /\ pc = "exit" =>
         HasEvent("Removed UNINITIALIZED marker") \/ HasEvent("Could not remove marker")
    /\ HasEvent("Removed UNINITIALIZED marker") =>
         /\ Path.UNINITIALIZED \notin DOMAIN files
         /\ pc = "exit" =>
              (HasEvent("Template Initialized Successfully!") /\ exitCode = Exited(0))

\* a run whose state write failed has ended with the summary, marker absent
C14_Witness ==
  /\ pc = "exit"
  /\ exitCode = Exited(0)
  /\ HasEvent("Could not save state")
  /\ stateRecord = <<>>
  /\ HasEvent("Removed UNINITIALIZED marker")
  /\ HasEvent("Template Initialized Successfully!")
  /\ Path.UNINITIALIZED \notin DOMAIN files

\* the user typed yes or y, in any letter case, at the confirmation prompt
TypedAffirmative == ConfirmationRead /\ Affirmative(Trim(confirm))

\* C15: the mutation phase starts only if the user typed an affirmative
\* answer at the confirmation prompt: a run is in the mutation phase, or has
\* changed the tree, the state record or the remote, only after the user
\* typed yes or y at that prompt.
C15_MutationOnlyAfterTypedYes ==
  (pc \in MutationPhase \/ ~Untouched) => TypedAffirmative

\* in the messages printed so far, every a comes before every b
Precedes(a, b) ==
  \A i, j \in 1..Len(log) : (log[i].ev \in a /\ log[j].ev \in b) => i < j

RewriteEvents == {"Updated", "Skipped (error)", "Created .env.local from .env.example",
                  "Could not create .env.local"}

StateEvents == {"Saved initialization state", "Could not save state"}

MarkerEvents == {"Removed UNINITIALIZED marker", "Could not remove marker"}

SummaryEvents == {"Template Initialized Successfully!"}

\* C16: the closing sequence is strictly ordered.  Every file rewrite is
\* attempted before the state record is written (no file is left to process
\* once the state write was attempted, and the state record changes only
\* with that attempt), the state write is attempted before the marker
\* removal, and the summary is printed only after the marker was removed;
\* so while a file can still be rewritten the marker is present and the
\* state record is not yet written.
C16_ClosingSequenceOrdered ==
  /\ Precedes(RewriteEvents, StateEvents)
  /\ Precedes(StateEvents, MarkerEvents)
  /\ Precedes(MarkerEvents, SummaryEvents)
  /\ (\E k \in 1..Len(log) : log[k].ev \in StateEvents) => (todo = <<>> /\ pc # "process")
  /\ stateRecord # before.stateRecord => HasEvent("Saved initialization state")
  /\ (\E k \in 1..Len(log) : log[k].ev \in MarkerEvents) =>
       \E k \in 1..Len(log) : log[k].ev \in StateEvents
  /\ (Path.UNINITIALIZED \in DOMAIN before.files /\ Path.UNINITIALIZED \notin DOMAIN files)
       => HasEvent("Removed UNINITIALIZED marker")
  /\ HasEvent("Template Initialized Successfully!") =>
       (HasEvent("Removed UNINITIALIZED marker") /\ Path.UNINITIALIZED \notin DOMAIN files)
  /\ pc \in {"process", "env", "git", "state"} =>
       (Path.UNINITIALIZED \in DOMAIN files /\ stateRecord = before.stateRecord)

\* a run that rewrote a file, saved the state, removed the marker and
\* printed the summary
C16_Witness ==
  /\ pc = "exit"
  /\ HasEvent("Updated")
  /\ HasEvent("Saved initialization state")
  /\ HasEvent("Removed UNINITIALIZED marker")
  /\ HasEvent("Template Initialized Successfully!")
  /\ stateRecord # <<>>
  /\ Path.UNINITIALIZED \notin DOMAIN files

\* C18: the state record is written only by a run that ends successfully:
\* a run that has written the record and has ended left the marker absent
\* and ended with status 0, so that a record saying initialized and the
\* marker are never both there at the end of a run.
C18_StateRecordOnlyBySuccessfulRun ==
  (pc = "exit" /\ HasEvent("Saved initialization state")) =>
    /\ stateRecord = <<StateOf(values)>>
    /\ Path.UNINITIALIZED \notin DOMAIN files
    /\ exitCode = Exited(0)

\* C26: every interaction of the wizard with version control is a read-only
\* local query: no run, confirmed or not, changes the remote origin of the
\* repository.
C26_VersionControlReadOnly == gitRemote = before.gitRemote

(***************************************************************************)
(* The pure functions under test (specification SpecTransform):            *)
(* replacePlaceholders applied once and again, then findPlaceholders       *)
(***************************************************************************)
\* the placeholders of .template/PLACEHOLDERS.md: bracketed, then legacy
DocumentedBracketed ==
  { Bracketed(Token.PROJECT_NAME), Bracketed(Token.PROJECT_DISPLAY_NAME), Bracketed(Token.DESCRIPTION),
    Bracketed(Token.AUTHOR), Bracketed(Token.AUTHOR_EMAIL), Bracketed(Token.REPO_URL),
    Bracketed(Token.REPO_OWNER), Bracketed(Token.REPO_NAME), Bracketed(Token.COMPANY_DOMAIN),
    Bracketed(Token.PRODUCTION_URL), Bracketed(Token.TEAM_HANDLE), Bracketed(Token.SUPPORT_EMAIL),
    Bracketed(Token.SECURITY_EMAIL) }

DocumentedLegacy ==
  {Token.PROJECT_NAME, Token.DESCRIPTION, Token.AUTHOR, Token.USERNAME_REPO_NAME, Token.YOUR_DOMAIN}

\* the number of fragments a content under test is made of, at most
MaxFragments == 3

Fragments ==
  { Token.Space, Token.UN, Token.AUTHOR, Token.IZED, Bracketed(Token.AUTHOR), Token.US_PROJECT, Token.NAME_US,
    Token.YOUR_, Token.USERNAME_REPO_NAME }

RECURSIVE ConcatsOf(_)
ConcatsOf(n) ==
  IF n = 0 THEN {<<>>}
  ELSE LET shorter == ConcatsOf(n - 1)
       IN shorter \cup {a \o f : a \in shorter, f \in Fragments}

Contents ==
  ConcatsOf(MaxFragments) \cup DocumentedBracketed \cup DocumentedLegacy
    \cup { FileText.EndToEnd, FileText.Unauthorized, Token.YOUR_USERNAME_REPO_NAME,
           Token.SUPPORT_EMAIL \o Token.AtExampleCom, Token.SECURITY_EMAIL \o Token.AtExampleCom }

VExample ==
  [projectName |-> Value.AcmeApp,
   description |-> Value.DescriptionDefault,
   author |-> Value.JaneDoe,
   authorEmail |-> Value.JaneMail,
   repoOwner |-> Value.Janedoe,
   repoName |-> Value.AcmeApp,
   repoUrl |-> Value.HttpsGithubCom \o Value.Janedoe \o Token.Slash \o Value.AcmeApp,
   companyDomain |-> Value.AcmeDev,
   supportEmail |-> Value.SupportAtExampleCom,
   securityEmail |-> Value.SecurityAtExampleCom]

VEmpty == NoValues

\* values with "$" in them: "$$" and "$" before a grave accent
VDollar == [VExample EXCEPT !.description = <<"$","$">>, !.author = <<"$",chGrave>>]

\* a value that is the text of another placeholder
VToken == [VExample EXCEPT !.projectName = Token.AUTHOR]

ValueMaps == {VExample, VEmpty, VDollar, VToken}

InitIdle ==
  /\ pc = "off"
  /\ gitState = "nogit"
  /\ gitRemote = <<>>
  /\ gitIdentity = [user |-> <<>>, email |-> <<>>]
  /\ dirName = <<>>
  /\ values = NoValues
  /\ confirm = <<>>
  /\ todo = <<>>
  /\ stateRecord = <<>>
  /\ log = <<>>
  /\ prompts = 0
  /\ faults = 0
  /\ before = [files |-> NoFiles, gitRemote |-> <<>>, stateRecord |-> <<>>,
               earlier |-> <<>>]

TransformInit ==
  /\ tpc = "start"
  /\ tContent \in Contents
  /\ tValues \in ValueMaps
  /\ tOnce = <<>>
  /\ tTwice = <<>>
  /\ tFound = {}
  /\ InitIdle
  /\ files = NoFiles
  /\ exitCode = Running
  /\ CheckIdle
  /\ DiscoveryIdle
  /\ ResolverIdle

Substitute ==
  /\ tpc = "start"
  /\ tOnce' = replacePlaceholders(tContent, tValues)
  /\ tpc' = "once"
  /\ UNCHANGED << tContent, tValues, tTwice, tFound, initVars, files, exitCode, checkVars,
                  discoveryVars, resolverVars >>

SubstituteAgain ==
  /\ tpc = "once"
  /\ tTwice' = replacePlaceholders(tOnce, tValues)
  /\ tpc' = "twice"
  /\ UNCHANGED << tContent, tValues, tOnce, tFound, initVars, files, exitCode, checkVars,
                  discoveryVars, resolverVars >>

Scan ==
  /\ tpc = "twice"
  /\ tFound' = findPlaceholders(tOnce)
  /\ tpc' = "scanned"
  /\ UNCHANGED << tContent, tValues, tOnce, tTwice, initVars, files, exitCode, checkVars,
                  discoveryVars, resolverVars >>

TransformNext == Substitute \/ SubstituteAgain \/ Scan

SpecTransform == TransformInit /\ [][TransformNext]_vars

\* no value holds the text of a documented placeholder
NoPlaceholderSyntax(v) ==
  \A k \in Keys : \A token \in DocumentedBracketed \cup DocumentedLegacy :
    ~Includes(v[k], token)

\* C3: replacePlaceholders is idempotent for values without placeholder syntax.
C3_Idempotent ==
  (tpc \in {"twice", "scanned"} /\ NoPlaceholderSyntax(tValues)) => tTwice = tOnce

\* C4: completeness: after substitution with values without placeholder
\* syntax the scanner flags nothing in a content that exercises a documented
\* placeholder.
C4_DocumentedPlaceholdersAllReplaced ==
  ( /\ tpc = "scanned"
    /\ tContent \in DocumentedBracketed \cup DocumentedLegacy
    /\ NoPlaceholderSyntax(tValues) ) => tFound = {}

Letters == UpperChars \cup LowerChars

\* AUTHOR occurs in c, always with a letter next to it, and c holds no "__"
\* and no other legacy placeholder
AuthorOnlyInsideLongerWord(c) ==
  /\ Includes(c, Token.AUTHOR)
  /\ \A i \in 1..Len(c) :
       HasAt(c, i, Token.AUTHOR) =>
         (At(c, i - 1) \in Letters \/ At(c, i + Len(Token.AUTHOR)) \in Letters)
  /\ ~Includes(c, US)
  /\ \A token \in DocumentedLegacy \ {Token.AUTHOR} : ~Includes(c, token)

\* C8: content in which AUTHOR occurs only inside a longer word is returned
\* unchanged by replacePlaceholders, for every value map, and the scanner
\* finds no placeholder in it.
C8_AuthorInsideWordUntouched ==
  (tpc = "scanned" /\ AuthorOnlyInsideLongerWord(tContent)) =>
    (tOnce = tContent /\ tFound = {})

C8_Witness ==
  /\ tpc = "scanned"
  /\ tContent = FileText.Unauthorized
  /\ tValues = VExample
  /\ AuthorOnlyInsideLongerWord(tContent)
  /\ tOnce = FileText.Unauthorized

\* the ten bracketed tokens of replacePlaceholders, each with its key
BracketedTokens ==
  { [token |-> Bracketed(Token.PROJECT_NAME), key |-> "projectName"],
    [token |-> Bracketed(Token.DESCRIPTION), key |-> "description"],
    [token |-> Bracketed(Token.AUTHOR), key |-> "author"],
    [token |-> Bracketed(Token.AUTHOR_EMAIL), key |-> "authorEmail"],
    [token |-> Bracketed(Token.REPO_OWNER), key |-> "repoOwner"],
    [token |-> Bracketed(Token.REPO_NAME), key |-> "repoName"],
    [token |-> Bracketed(Token.REPO_URL), key |-> "repoUrl"],
    [token |-> Bracketed(Token.COMPANY_DOMAIN), key |-> "companyDomain"],
    [token |-> Bracketed(Token.SUPPORT_EMAIL), key |-> "supportEmail"],
    [token |-> Bracketed(Token.SECURITY_EMAIL), key |-> "securityEmail"] }

\* texts without any placeholder
PlainTexts == {<<>>, Token.Space, Token.UN, Token.IZED, Token.UN \o Token.Space}

\* C9: a bracketed token is replaced by the literal value of its key and the
\* text around it is left as it was, for every value map; and the end-to-end
\* example of the specification.
C9_BracketedReplacedByLiteralValue ==
  tpc # "start" =>
    /\ \A t \in BracketedTokens : \A a \in PlainTexts, b \in PlainTexts :
         tContent = a \o t.token \o b => tOnce = a \o tValues[t.key] \o b
    /\ (tContent = FileText.EndToEnd /\ tValues = VExample) => tOnce = FileText.EndToEndResult

\* owner/name as the rules for the slash pairs build it
RepoPair(v) == v.repoOwner \o Token.Slash \o v.repoName

\* C19: the rule list is ordered so that a rule whose pattern contains the
\* pattern of another rule comes before it, and so the content
\* YOUR_USERNAME/REPO_NAME becomes exactly owner/name.
C19_LongerPatternsFirst ==
  /\ LET rules == Replacements(tValues)
     IN \A i, j \in 1..Len(rules) :
          (i # j /\ Includes(rules[i].pattern.lit, rules[j].pattern.lit)) => i < j
  /\ (tpc # "start" /\ tContent = Token.YOUR_USERNAME_REPO_NAME) => tOnce = RepoPair(tValues)

Occurrences(content, ps) ==
  { <<j, MatchLen(content, j, ps[k])>> :
      <<j, k>> \in { <<j, k>> \in (1..Len(content)) \X (1..Len(ps)) :
                       MatchLen(content, j, ps[k]) > 0 } }

\* the scanner's patterns for the bare tokens: all but the generic one
ScannerBarePatterns == SubSeq(PLACEHOLDER_PATTERNS, 2, Len(PLACEHOLDER_PATTERNS))

\* the patterns of the engine's rules for the bare tokens: all after the ten
\* bracketed ones
EngineBarePatterns ==
  LET rules == Replacements(tValues)
  IN [k \in 1..(Len(rules) - 10) |-> rules[k + 10].pattern]

\* C27: the scanner's patterns for the bare tokens and the engine's rules
\* for them use the same boundaries and exceptions: in every content, an
\* occurrence of a bare placeholder is flagged by the scanner if and only
\* if a rule of the engine replaces it.
C27_ScannerFlagsWhatEngineReplaces ==
  tpc = "scanned" =>
    Occurrences(tContent, ScannerBarePatterns) = Occurrences(tContent, EngineBarePatterns)

\* the occurrences of the rules' patterns in the original content, each
\* <<position, length, rule>>: the rules take their turn in the order of
\* the list, and a rule takes no occurrence that overlaps one already taken
RECURSIVE TakenBy(_, _, _, _)
TakenBy(content, rules, k, taken) ==
  IF k > Len(rules) THEN taken
  ELSE LET free == { j \in 1..Len(content) :
                       /\ MatchLen(content, j, rules[k].pattern) > 0
                       /\ \A t \in taken :
                            \/ j + MatchLen(content, j, rules[k].pattern) <= t[1]
                            \/ t[1] + t[2] <= j }
       IN TakenBy(content, rules, k + 1,
                  taken \cup { <<j, MatchLen(content, j, rules[k].pattern), k>> : j \in free })

\* content from position i on, with every taken occurrence replaced by the
\* value of its rule
RECURSIVE ReplaceTaken(_, _, _, _)
ReplaceTaken(content, i, rules, taken) ==
  LET ahead == {t \in taken : t[1] >= i}
  IN IF ahead = {} THEN SubSeq(content, i, Len(content))
     ELSE LET t == CHOOSE u \in ahead : \A w \in ahead : u[1] <= w[1]
          IN SubSeq(content, i, t[1] - 1)
               \o GetSubstitution(rules[t[3]].value, 1, content, t[1], t[2])
               \o ReplaceTaken(content, t[1] + t[2], rules, taken)

\* all placeholder occurrences of the original content substituted at once
SimultaneousSubstitution(content, v) ==
  ReplaceTaken(content, 1, Replacements(v), TakenBy(content, Replacements(v), 1, {}))

\* C30: within one call of replacePlaceholders text inserted by one rule is
\* never rewritten by a later rule: the result is the simultaneous
\* substitution of all placeholder occurrences of the original content,
\* also when a value is the text of another placeholder.
C30_InsertedTextNotRewritten ==
  tpc # "start" => tOnce = SimultaneousSubstitution(tContent, tValues)

(***************************************************************************)
(* Properties of runs that follow one another (specification SpecRerun)    *)
(***************************************************************************)
\* the run before this one ended and left the marker absent, and nobody
\* put the marker back
RerunOfInitialized ==
  /\ before.earlier # <<>>
  /\ Path.UNINITIALIZED \notin DOMAIN before.earlier[1].tree
  /\ Path.UNINITIALIZED \notin DOMAIN before.files

RerunOfInterrupted ==
  /\ before.earlier # <<>>
  /\ before.earlier[1].exitCode = Killed
  /\ Path.UNINITIALIZED \in DOMAIN before.earlier[1].tree
  /\ before.files = before.earlier[1].tree

\* the tree one run with values v, with no failure and no interruption,
\* makes of tree
SingleRun(tree, v) ==
  LET found == Range(findTextFiles(<<>>, DOMAIN tree, ListingOrder))
      substituted ==
        [p \in DOMAIN tree |->
           IF p \in found THEN replacePlaceholders(tree[p], v) ELSE tree[p]]
      withEnv ==
        IF ShouldCreateEnv(Path.EnvLocal \in DOMAIN tree, Path.EnvExample \in DOMAIN tree)
        THEN WriteFile(substituted, Path.EnvLocal, tree[Path.EnvExample])
        ELSE substituted
  IN Unlink(withEnv, Path.UNINITIALIZED)

\* this run went through to the summary with no failed operation
CompleteRun ==
  /\ pc = "exit"
  /\ exitCode = Exited(0)
  /\ HasEvent("Template Initialized Successfully!")
  /\ faults = 0

\* the run was killed before it came to write the state record
KilledBeforeClosing ==
  /\ pc = "exit"
  /\ exitCode = Killed
  /\ stateRecord = before.stateRecord
  /\ ~HasEvent("Could not save state")

ScanExcludesTemplateOnly == {Path.TemplateDir}

\* EXCLUDE_DIRS of template-check.mjs
SCAN_EXCLUDE_DIRS == EXCLUDE_DIRS \cup {Path.TemplateDir}

EXCLUDE_FILES == {Name.TemplateInit, Name.TemplateCheck, Name.PLACEHOLDERS_md, Path.PnpmLock, Path.PackageLock}

shouldScanFile(filePath) ==
  IF FileNameOf(filePath) \in EXCLUDE_FILES THEN FALSE
  ELSE ExtensionOf(filePath) \in TEXT_EXTENSIONS

\* the files pushed by the loop of the scanner's findTextFiles(dir) from its
\* k-th item on
RECURSIVE scanFindTextFilesLoop(_, _, _, _, _)
scanFindTextFilesLoop(dir, items, k, paths, order) ==
  IF k > Len(items) THEN <<>>
  ELSE LET relativePath == join(dir, items[k])
           rest == scanFindTextFilesLoop(dir, items, k + 1, paths, order)
       IN IF \E excluded \in SCAN_EXCLUDE_DIRS : StartsWith(relativePath, excluded)
          THEN rest
          ELSE IF isDirectory(relativePath, paths)
          THEN scanFindTextFilesLoop(relativePath, readdirSync(relativePath, paths, order), 1,
                                     paths, order) \o rest
          ELSE IF isFile(relativePath, paths) /\ shouldScanFile(relativePath)
          THEN <<relativePath>> \o rest
          ELSE rest

scanFindTextFiles(dir, paths, order) ==
  scanFindTextFilesLoop(dir, readdirSync(dir, paths, order), 1, paths, order)

existsSync(path) == isFile(path, DOMAIN files) \/ isDirectory(path, DOMAIN files)

checkInitializationMarker == ~existsSync(Path.UNINITIALIZED)

requiredFiles == << Path.PackageJson, Path.README_md, Path.EnvExample, Path.Gitignore, Path.Tsconfig >>

checkRequiredFiles == \A k \in 1..Len(requiredFiles) : existsSync(requiredFiles[k])

\* content.split('\n'): the lines of content, one more than it has newlines
split(content) ==
  LET breaks == {j \in 1..Len(content) : content[j] = "\n"}
      \* the position of the k-th newline; 0 before the first line, and one
      \* past the end after the last
      Break(k) ==
        IF k = 0 THEN 0
        ELSE IF k > Cardinality(breaks) THEN Len(content) + 1
        ELSE CHOOSE j \in breaks : Cardinality({i \in breaks : i < j}) = k - 1
  IN [k \in 1..(Cardinality(breaks) + 1) |-> SubSeq(content, Break(k - 1) + 1, Break(k) - 1)]

\* the issues of scanForPlaceholders when reading the files in unreadable
\* throws: for every file with a placeholder, one entry for each placeholder
\* and each line that includes its text
scanForPlaceholders(unreadable) ==
  LET found == scanFindTextFiles(<<>>, DOMAIN files, ListingOrder)
      details(content) ==
        LET lines == split(content)
        IN { [line |-> index,
              placeholder |-> placeholder,
              content |-> SubSeq(Trim(lines[index]), 1,
                                 IF Len(Trim(lines[index])) < 80 THEN Len(Trim(lines[index]))
                                 ELSE 80)] :
               <<placeholder, index>> \in
                 { <<q, i>> \in findPlaceholders(content) \X (1..Len(lines)) :
                     Includes(lines[i], q) } }
  IN { [file |-> found[k], placeholders |-> details(files[found[k]])] :
         k \in { j \in 1..Len(found) :
                   /\ found[j] \notin unreadable
                   /\ findPlaceholders(files[found[j]]) # {} } }

Result(check, passed, issues) == [check |-> check, passed |-> passed, issues |-> issues]

\* main overwrites its verdict with the result of each check
lastCheckPassed == checks[Len(checks)].passed

\* main: allChecksPassed, set to false by every check that fails
allChecksPassed == \A k \in 1..Len(checks) : checks[k].passed

\* main, check 1
CheckMarker ==
  /\ cpc = "marker"
  /\ checks' = Append(checks, Result("marker", checkInitializationMarker, {}))
  /\ cpc' = "required"
  /\ UNCHANGED << initVars, files, exitCode, transformVars, discoveryVars, resolverVars >>

\* main, check 2
CheckRequired ==
  /\ cpc = "required"
  /\ checks' = Append(checks, Result("required", checkRequiredFiles, {}))
  /\ cpc' = "scan"
  /\ UNCHANGED << initVars, files, exitCode, transformVars, discoveryVars, resolverVars >>

\* main, check 3; listing a directory may throw, which main catches
CheckScan ==
  /\ cpc = "scan"
  /\ \/ \E unreadable \in SUBSET DOMAIN files :
          /\ Cardinality(unreadable) <= MaxFaults
          /\ \E issues \in {scanForPlaceholders(unreadable)} :
               checks' = Append(checks, Result("scan", issues = {}, issues))
          /\ cpc' = "result"
          /\ UNCHANGED exitCode
     \/ /\ checks' = Append(checks, Result("scan threw", FALSE, {}))
        /\ exitCode' = Exited(1)
        /\ cpc' = "exit"
  /\ UNCHANGED << initVars, files, transformVars, discoveryVars, resolverVars >>

\* main, final result
CheckResult ==
  /\ cpc = "result"
  /\ exitCode' = IF allChecksPassed THEN Exited(0) ELSE Exited(1)
  /\ cpc' = "exit"
  /\ UNCHANGED << initVars, files, checks, transformVars, discoveryVars, resolverVars >>

\* the contents a text file of the template may have when template-check.mjs runs:
\* as cloned, or substituted
ContentsOf(c) == {c, replacePlaceholders(c, VExample)}

\* a working tree, before template-check.mjs starts
CheckInit ==
  /\ \E marker \in BOOLEAN, hasPackage \in BOOLEAN, hasEnv \in BOOLEAN,
        hasGitignore \in BOOLEAN, hasTsconfig \in BOOLEAN,
        readme \in ContentsOf(FileText.Readme) \cup ContentsOf(FileText.Notes) \cup {<<>>},
        bugReport \in ContentsOf(FileText.BugReport),
        package \in ContentsOf(FileText.PackagePlaceholder) :
       files =
         LET tree ==
               WithFiles(
                 WithFiles(
                   WithFiles(BaseTree, OptionalFile(hasPackage, Path.PackageJson, package)),
                   OptionalFile(hasEnv, Path.EnvExample, FileText.EnvExample)),
                 OptionalFile(hasTsconfig, Path.Tsconfig, FileText.Tsconfig))
             written ==
               WriteFile(IF readme = <<>> THEN Unlink(tree, Path.README_md)
                         ELSE WriteFile(tree, Path.README_md, readme),
                         Path.BugReport_yml, bugReport)
             kept == IF hasGitignore THEN written ELSE Unlink(written, Path.Gitignore)
         IN IF marker THEN kept ELSE Unlink(kept, Path.UNINITIALIZED)
  /\ cpc = "marker"
  /\ checks = <<>>
  /\ exitCode = Running
  /\ InitIdle
  /\ TransformIdle
  /\ DiscoveryIdle
  /\ ResolverIdle

CheckNext == CheckMarker \/ CheckRequired \/ CheckScan \/ CheckResult

SpecCheck == CheckInit /\ [][CheckNext]_vars

RequiredNames == {Path.PackageJson, Path.README_md, Path.EnvExample, Path.Gitignore, Path.Tsconfig}

ChecksMade == [k \in 1..Len(checks) |-> checks[k].check]

ScanFoundNoIssue ==
  /\ Len(checks) = 3
  /\ checks[3].check = "scan"
  /\ checks[3].issues = {}

\* C7: template-check.mjs exits with status 0 if and only if the marker is
\* absent, every required file exists and the scan found zero issues; all
\* three checks are made on every run, in order, whatever the earlier results.
C7_ExitZeroIffAllThreeChecksPass ==
  cpc = "exit" =>
    /\ exitCode \in {Exited(0), Exited(1)}
    /\ exitCode = Exited(0) <=>
         /\ Path.UNINITIALIZED \notin DOMAIN files
         /\ RequiredNames \subseteq DOMAIN files
         /\ ScanFoundNoIssue
    /\ ChecksMade \in {<<"marker", "required", "scan">>,
                       <<"marker", "required", "scan threw">>}

\* a run in which the first check fails, the later ones are made all the same
\* and the exit status is 1
C7_Witness ==
  /\ cpc = "exit"
  /\ exitCode = Exited(1)
  /\ ~checks[1].passed
  /\ checks[2].passed
  /\ ChecksMade = <<"marker", "required", "scan">>
  /\ checks[3].passed

\* the scan was made and returned its issues
ScanMade == Len(checks) = 3 /\ checks[3].check = "scan"

\* text is matched on that line by one of the scanner's patterns
MatchedOnLine(text, line) ==
  \E k \in 1..Len(PLACEHOLDER_PATTERNS) : text \in MatchAll(line, PLACEHOLDER_PATTERNS[k])

\* C28: every entry of every issue the scanner reports names a line of that
\* file on which the token is matched by a placeholder pattern, with a
\* line number counted from 1 and an excerpt of at most 80 characters; and
\* every file with a match, unless it could not be read, has an issue with
\* at least one entry.
C28_IssuesNameMatchingLines ==
  ScanMade =>
    /\ \A issue \in checks[3].issues :
         /\ issue.file \in DOMAIN files
         /\ issue.placeholders # {}
         /\ \A d \in issue.placeholders :
              /\ d.line \in 1..Len(split(files[issue.file]))
              /\ MatchedOnLine(d.placeholder, split(files[issue.file])[d.line])
              /\ Len(d.content) <= 80
    /\ Cardinality({ f \in Range(scanFindTextFiles(<<>>, DOMAIN files, ListingOrder)) :
                       findPlaceholders(files[f]) # {} }
                     \ {issue.file : issue \in checks[3].issues}) <= MaxFaults

(***************************************************************************)
(* The two discoveries under test (specification SpecDiscovery):           *)
(* findTextFiles of template-init.mjs and of template-check.mjs on a tree  *)
(* given by its paths and by the order in which the filesystem lists them  *)
(***************************************************************************)
DiscoveryPaths ==
  { Path.README_md, Path.Docs_md, Path.DocsApi_md, Path.DocsBuildGuide_md,
    Path.NodeModulesReadme, Path.SECURITY_md, Path.PLACEHOLDERS_md, Path.TemplateInit,
    Path.Logo_png }

\* three orders in which a filesystem may list the tree: by path; each
\* directory by name (scandir with a comparison of names); and the reverse
\* of the first, as a hash of the names may give
Orders ==
  LET byPath ==
        << Path.SECURITY_md, Path.PLACEHOLDERS_md, Path.README_md, Path.Docs_md,
           Path.DocsApi_md, Path.DocsBuildGuide_md, Path.NodeModulesReadme, Path.Logo_png,
           Path.TemplateInit >>
      byName ==
        << Path.SECURITY_md, Path.PLACEHOLDERS_md, Path.README_md, Path.DocsApi_md,
           Path.DocsBuildGuide_md, Path.Docs_md, Path.NodeModulesReadme, Path.Logo_png,
           Path.TemplateInit >>
      reversed == [k \in 1..Len(byPath) |-> byPath[Len(byPath) + 1 - k]]
  IN {byPath, byName, reversed}

DiscoveryInit ==
  /\ dpc = "start"
  /\ dTree \in [paths : SUBSET DiscoveryPaths, order : Orders]
  /\ dFound = <<>>
  /\ InitIdle
  /\ files = NoFiles
  /\ exitCode = Running
  /\ CheckIdle
  /\ TransformIdle
  /\ ResolverIdle

\* template-init.mjs: findTextFiles(ROOT_DIR)
DiscoverInit ==
  /\ dpc = "start"
  /\ dFound' = [init |-> findTextFiles(<<>>, dTree.paths, dTree.order)]
  /\ dpc' = "init"
  /\ UNCHANGED << dTree, initVars, files, exitCode, checkVars, transformVars, resolverVars >>

\* template-check.mjs: findTextFiles(ROOT_DIR)
DiscoverScan ==
  /\ dpc = "init"
  /\ dFound' = [init |-> dFound.init,
                scan |-> scanFindTextFiles(<<>>, dTree.paths, dTree.order)]
  /\ dpc' = "scan"
  /\ UNCHANGED << dTree, initVars, files, exitCode, checkVars, transformVars, resolverVars >>

\* template-init.mjs: findTextFiles(ROOT_DIR) once more, on the same tree
\* as the filesystem lists it then
DiscoverAgain ==
  /\ dpc = "scan"
  /\ \E order \in Orders :
       dFound' = [init |-> dFound.init, scan |-> dFound.scan,
                  again |-> findTextFiles(<<>>, dTree.paths, order)]
  /\ dpc' = "again"
  /\ UNCHANGED << dTree, initVars, files, exitCode, checkVars, transformVars, resolverVars >>

DiscoveryNext == DiscoverInit \/ DiscoverScan \/ DiscoverAgain

SpecDiscovery == DiscoveryInit /\ [][DiscoveryNext]_vars

\* C21: no file beneath a directory of the exclusion list, at any depth, is
\* returned by the discovery of the wizard or by that of the scanner.
C21_NothingBeneathExcludedDirs ==
  dpc \in {"scan", "again"} =>
    \A p \in Range(dFound.init) \cup Range(dFound.scan) : DirsAbove(p) \cap EXCLUDE_DIRS = {}

\* the characters of the paths, by ascending code unit
CodeUnitOrder ==
  << "-", ".", "/",
     "A","B","C","D","E","F","G","H","I","J","K","L","M",
     "N","O","P","Q","R","S","T","U","V","W","X","Y","Z", "_",
     "a","b","c","d","e","f","g","h","i","j","k","l","m",
     "n","o","p","q","r","s","t","u","v","w","x","y","z" >>

CodeUnit(ch) == CHOOSE k \in 1..Len(CodeUnitOrder) : CodeUnitOrder[k] = ch

\* a < b as strings
PathBefore(a, b) ==
  \E i \in 1..(Len(a) + 1) :
    /\ \A k \in 1..(i - 1) : k <= Len(b) /\ a[k] = b[k]
    /\ i <= Len(b)
    /\ (i = Len(a) + 1 \/ CodeUnit(a[i]) < CodeUnit(b[i]))

SortedByPath(found) == \A i, j \in 1..Len(found) : i < j => PathBefore(found[i], found[j])

\* C22: the list a discovery returns is sorted by path, whatever the order
\* in which the filesystem lists the entries, and so a second discovery of
\* the same tree returns the same sequence.
C22_DiscoverySortedByPath ==
  dpc = "again" =>
    /\ SortedByPath(dFound.init)
    /\ SortedByPath(dFound.scan)
    /\ dFound.again = dFound.init

\* C29: for every tree the files the scanner inspects are among the files
\* the wizard's substitution pass visits: the two use the same extension
\* list and the scanner's exclusions only add to the wizard's.
C29_ScannerInspectsSubsetOfWizard ==
  /\ EXCLUDE_DIRS \subseteq SCAN_EXCLUDE_DIRS
  /\ dpc \in {"scan", "again"} => Range(dFound.scan) \subseteq Range(dFound.init)

\* a tree where the scanner inspects some of the wizard's files and leaves
\* out others: the reference document and the wizard's own source
C29_Witness ==
  /\ dpc = "scan"
  /\ Path.README_md \in Range(dFound.scan)
  /\ Path.DocsApi_md \in Range(dFound.scan)
  /\ {Path.PLACEHOLDERS_md, Path.TemplateInit} \subseteq Range(dFound.init) \ Range(dFound.scan)
  /\ Path.NodeModulesReadme \in dTree.paths
  /\ Path.Logo_png \in dTree.paths

(***************************************************************************)
(* The resolver and the prompt collector under test (specification         *)
(* SpecResolver): getDefaults on the sources it reads, then gatherInput    *)
(***************************************************************************)
\* a JSON value of package.json that is an object, not a string (the
\* "author" field may be {"name": ..., "email": ...}): truthy, and different
\* from every string
JsonObject == <<"OBJECT">>

\* what getDefaults finds: the directory name, the output of git remote
\* get-url origin, package.json as parsed, and the git identity
ResolverSources ==
  [ dir : DirNames,
    remote : {<<>>, Value.RemoteSsh, Value.RemoteYourPlaceholder},
    pkg : {[ok |-> FALSE, name |-> <<>>, author |-> <<>>]}
            \cup [ ok : {TRUE},
                   name : {<<>>, Token.PROJECT_NAME, Bracketed(Token.PROJECT_NAME), Value.AcmeApp},
                   author : {<<>>, Token.AUTHOR, Bracketed(Token.AUTHOR), Value.JaneDoe,
                             JsonObject} ],
    id : { [ok |-> FALSE, user |-> <<>>, email |-> <<>>],
           [ok |-> TRUE, user |-> Value.GitUser, email |-> Value.GitMail] } ]

ResolverInit ==
  /\ rpc = "start"
  /\ rSources \in ResolverSources
  /\ rResult = <<>>
  /\ InitIdle
  /\ files = NoFiles
  /\ exitCode = Running
  /\ CheckIdle
  /\ TransformIdle
  /\ DiscoveryIdle

\* const defaults = getDefaults()
Resolve ==
  /\ rpc = "start"
  /\ rResult' = [defaults |-> getDefaults(rSources.dir, rSources.remote, rSources.pkg,
                                          rSources.id)]
  /\ rpc' = "resolved"
  /\ UNCHANGED << rSources, initVars, files, exitCode, checkVars, transformVars, discoveryVars >>

\* the nine prompts of gatherInput and the derivation of repoUrl
Gather ==
  /\ rpc = "resolved"
  /\ \E typed \in TypedInputs :
       rResult' = [defaults |-> rResult.defaults, typed |-> typed,
                   got |-> gatherInput(rResult.defaults, typed)]
  /\ rpc' = "gathered"
  /\ UNCHANGED << rSources, initVars, files, exitCode, checkVars, transformVars, discoveryVars >>

ResolverNext == Resolve \/ Gather

SpecResolver == ResolverInit /\ [][ResolverNext]_vars

\* the directory name is one getDefaults uses
UsableDir == rSources.dir # <<>> /\ rSources.dir # Value.TemplateDirName

\* owner and repository of the remote, <<>> when there is none to parse
RemoteParsed == IF rSources.remote = <<>> THEN <<>> ELSE GithubMatch(rSources.remote)

\* the field of package.json is there and is not a placeholder token
NotPlaceholder(field, name) ==
  /\ rSources.pkg.ok
  /\ field # <<>>
  /\ field # name
  /\ field # Bracketed(name)

\* C23, as stated: a later source overrides a value only when it is unset
\* or a placeholder, with the precedence directory name, descriptor, remote,
\* identity: projectName and repoName taken from the directory name are
\* kept; without a directory name the descriptor's name comes before the
\* repository name of the remote; the descriptor's author comes before the
\* identity.
C23_LaterSourceOnlyFillsUnset ==
  rpc # "start" =>
    LET d == rResult.defaults
    IN /\ UsableDir => (d.projectName = rSources.dir /\ d.repoName = rSources.dir)
       /\ (~UsableDir /\ NotPlaceholder(rSources.pkg.name, Token.PROJECT_NAME))
            => d.projectName = rSources.pkg.name
       /\ NotPlaceholder(rSources.pkg.author, Token.AUTHOR) => d.author = rSources.pkg.author

\* C24: getDefaults never returns a placeholder token of package.json as a
\* default: when the name or the author of package.json is the token in its
\* bracketed form (__PROJECT_NAME__, __AUTHOR__) or its bare form
\* (PROJECT_NAME, AUTHOR), the resolved projectName and author are not it.
C24_NoPlaceholderTokenAsDefault ==
  (rpc # "start" /\ rSources.pkg.ok) =>
    /\ rSources.pkg.name \in {Token.PROJECT_NAME, Bracketed(Token.PROJECT_NAME)}
         => rResult.defaults.projectName # rSources.pkg.name
    /\ rSources.pkg.author \in {Token.AUTHOR, Bracketed(Token.AUTHOR)}
         => rResult.defaults.author # rSources.pkg.author

\* a string, possibly empty: a sequence of characters, which the value that
\* stands for a JSON object is not
IsString(v) == \A k \in DOMAIN v : v[k] # JsonObject[1]

\* gatherInput returned a value set (it did not throw)
Gathered == rpc = "gathered" /\ ~rResult.got.threw

\* C25: in the value set gatherInput returns every one of the ten keys has a
\* string value, and repoUrl is "https://github.com/" + repoOwner + "/" +
\* repoName when both are non-empty and the resolved default repoUrl
\* otherwise.
C25_TenStringValuesAndDerivedUrl ==
  Gathered =>
    LET v == rResult.got.values
    IN /\ DOMAIN v = Keys
       /\ \A k \in Keys : IsString(v[k])
       /\ v.repoUrl =
            IF v.repoOwner # <<>> /\ v.repoName # <<>>
            THEN Value.HttpsGithubCom \o v.repoOwner \o Token.Slash \o v.repoName
            ELSE rResult.defaults.repoUrl

====
